---- MODULE Spec2Model ----
(***************************************************************************)
(* Rate-limit tracking and retry orchestration of the image uploader       *)
(* proxy: the rate-limit store, the policy checks, the interpretation of   *)
(* upstream responses, executeWithRateLimitRetry and the chunked imgchest  *)
(* handlers.  Times are milliseconds since the epoch, as Date.now().       *)
(***************************************************************************)
EXTENDS Integers, Sequences, FiniteSets, TLC

\* ------------------------------------------------------------------------
\* Arithmetic helpers (Math.max, Math.min, Math.ceil of a quotient, 2^n)
\* ------------------------------------------------------------------------
Max(a, b) == IF a >= b THEN a ELSE b

Min(a, b) == IF a <= b THEN a ELSE b

CeilDiv(a, b) == IF a % b = 0 THEN a \div b ELSE (a \div b) + 1

RECURSIVE Pow2(_)
Pow2(n) == IF n <= 0 THEN 1 ELSE 2 * Pow2(n - 1)

\* ------------------------------------------------------------------------
\* Optional values: a field that is undefined / null in the source is the
\* empty tuple, a defined value v is <<v>>.
\* ------------------------------------------------------------------------
Undefined == <<>>

Def(v) == <<v>>

IsDef(o) == o /= <<>>

Val(o) == o[1]

\* ------------------------------------------------------------------------
\* Program constants
\* ------------------------------------------------------------------------
SXCU_GLOBAL_BUCKET == "__sxcu_global__"

DEFAULT_RETRY_CONFIG ==
  [maxRetries |-> 5, baseDelayMs |-> 1000, maxDelayMs |-> 120000, jitterMs |-> 500]

IMGCHEST_RATE_LIMIT == [requestsPerMinute |-> 60, windowMs |-> 60000]

SXCU_RATE_LIMIT == [globalRequestsPerMinute |-> 240, globalWindowMs |-> 60000]

MAX_IMGCHEST_IMAGES_PER_REQUEST == 20

\* ------------------------------------------------------------------------
\* Bounds of the model
\* ------------------------------------------------------------------------
\* Date.now() when the process starts
StartTime == 100000

\* the clock is not advanced beyond StartTime + Horizon
Horizon == 70000

\* a timer fires late by less than Quantum: at the first multiple of Quantum
\* that is not before its due time
Quantum == 10000

\* number of logical requests served in one run
MaxRequests == 2

\* largest cost passed to the policy checks
MaxCost == 2

\* longest image list for which the chunking is checked exhaustively
MaxImages == 45

Costs == 1..MaxCost

BucketIds == {"b1", "b2"}

\* Math.random() draws, in thousandths
RandomDraws == {0, 999}

\* ------------------------------------------------------------------------
\* types.ts: pure functions
\* ------------------------------------------------------------------------
\* Raw response headers: each header is Undefined (absent) or Def(text).
\* Numeric header texts are written as the number they denote; the
\* X-RateLimit-Reset-After text (decimal seconds) is written in microseconds.
NoHeaders ==
  [limit |-> Undefined, remaining |-> Undefined, reset |-> Undefined,
   resetAfter |-> Undefined, bucket |-> Undefined, isGlobal |-> Undefined]

parseRateLimitHeaders(headers) ==
  [limit      |-> headers.limit,
   remaining  |-> headers.remaining,
   reset      |-> headers.reset,
   resetAfter |-> headers.resetAfter,
   bucket     |-> IF IsDef(headers.bucket) /\ Val(headers.bucket) /= ""
                  THEN headers.bucket ELSE Undefined,
   isGlobal   |-> IF IsDef(headers.isGlobal) /\ Val(headers.isGlobal) /= ""
                  THEN Def(TRUE) ELSE Undefined]

\* variant: the exponential delay is not capped at maxDelayMs
calculateExponentialBackoff_Uncapped(attempt, config, rnd) ==
  config.baseDelayMs * Pow2(attempt) + ((rnd * config.jitterMs) \div 1000)

\* variant: the delay does not grow with the attempt number
calculateExponentialBackoff_Constant(attempt, config, rnd) ==
  Min(config.baseDelayMs, config.maxDelayMs) + ((rnd * config.jitterMs) \div 1000)

\* rnd is the Math.random() draw in thousandths
calculateExponentialBackoff(attempt, config, rnd) ==
  LET exponentialDelay == config.baseDelayMs * Pow2(attempt)
      cappedDelay == Min(exponentialDelay, config.maxDelayMs)
  IN  cappedDelay + ((rnd * config.jitterMs) \div 1000)

\* variant: a reset timestamp is used without testing that it is in the future
calculateWaitTimeFromHeaders_AnyReset(headers, nowMs) ==
  IF IsDef(headers.resetAfter) /\ Val(headers.resetAfter) > 0
  THEN CeilDiv(Val(headers.resetAfter), 1000) + 100
  ELSE IF IsDef(headers.reset)
       THEN Val(headers.reset) * 1000 - nowMs + 100
       ELSE 60000 + 100

calculateWaitTimeFromHeaders(headers, nowMs) ==
  IF IsDef(headers.resetAfter) /\ Val(headers.resetAfter) > 0
  THEN CeilDiv(Val(headers.resetAfter), 1000) + 100
  ELSE IF IsDef(headers.reset) /\ Val(headers.reset) * 1000 > nowMs
       THEN Val(headers.reset) * 1000 - nowMs + 100
       ELSE 60000 + 100

\* variant: the entry still counts at the instant of its reset
isRateLimitExpired_Strict(entry, nowMs) == nowMs > entry.resetAt

isRateLimitExpired(entry, nowMs) == nowMs >= entry.resetAt

createRateLimitEntry(headers, nowMs) ==
  LET resetAt == IF IsDef(headers.resetAfter)
                 THEN nowMs + CeilDiv(Val(headers.resetAfter), 1000)
                 ELSE IF IsDef(headers.reset)
                      THEN Val(headers.reset) * 1000
                      ELSE nowMs + 60000
  IN  [limit       |-> IF IsDef(headers.limit) THEN Val(headers.limit) ELSE 60,
       remaining   |-> IF IsDef(headers.remaining) THEN Val(headers.remaining) ELSE 59,
       resetAt     |-> resetAt,
       windowStart |-> nowMs,
       lastUpdated |-> nowMs]

\* ------------------------------------------------------------------------
\* State
\* ------------------------------------------------------------------------
VARIABLES
  now,          \* Date.now()
  rateLimits,   \* the in-memory AllRateLimits
  disk,         \* content of the persisted rate-limit blob
  impl,         \* "bun" (the server) or "do" (the Durable Object RateLimiter)
  req,          \* per logical request: position and locals of its handler
  served,       \* number of requests started
  uploader      \* the ImageUploader of the client page: files, titleInput.value

vars == <<now, rateLimits, disk, impl, req, served, uploader>>

Procs == {1}

\* a new ImageUploader: no file selected, title field empty
NewUploader == [files |-> <<>>, title |-> <<>>]

EmptyRateLimits ==
  [imgchest |-> [default |-> Undefined],
   sxcu     |-> [buckets |-> [b \in BucketIds |-> Undefined], global |-> Undefined],
   catbox   |-> [default |-> Undefined]]

\* ------------------------------------------------------------------------
\* The store
\* ------------------------------------------------------------------------
cleanupExpiredEntries(rl, nowMs) ==
  LET sweep(e) == IF IsDef(e) /\ isRateLimitExpired(Val(e), nowMs) THEN Undefined ELSE e
  IN  [imgchest |-> [default |-> sweep(rl.imgchest.default)],
       sxcu     |-> [buckets |-> [b \in BucketIds |-> sweep(rl.sxcu.buckets[b])],
                     global  |-> sweep(rl.sxcu.global)],
       catbox   |-> [default |-> sweep(rl.catbox.default)]]

\* A persisted blob is absent (Undefined) or holds Def(v), v being either
\* [text |-> t] for a text JSON.parse rejects, or the object JSON.parse
\* returns; a property the object lacks is a field the record lacks.
Has(v, k) == k \in DOMAIN v

\* v[k] of JavaScript: undefined for an absent property
Field(v, k) == IF Has(v, k) THEN v[k] ELSE Undefined

parseThrows(v) == Has(v, "text")

\* cleanupExpiredEntries reads a property of undefined (TypeError)
cleanupThrows(v) ==
  \/ ~Has(v, "imgchest")
  \/ ~Has(v, "sxcu")
  \/ ~Has(v.sxcu, "buckets")
  \/ ~Has(v, "catbox")

\* the parsed object as the code reads it
asRateLimits(v) ==
  [imgchest |-> [default |-> Field(v.imgchest, "default")],
   sxcu     |-> [buckets |-> v.sxcu.buckets, global |-> Field(v.sxcu, "global")],
   catbox   |-> [default |-> Field(v.catbox, "default")]]

\* loadRateLimits(): rl is the in-memory store before the call
loadRateLimits(rl, file, nowMs) ==
  IF ~IsDef(file) THEN rl
  ELSE IF parseThrows(Val(file)) \/ cleanupThrows(Val(file))
       THEN EmptyRateLimits
       ELSE cleanupExpiredEntries(asRateLimits(Val(file)), nowMs)

\* the shape AllRateLimits of types.ts
IsAllRateLimits(v) ==
  /\ DOMAIN v = {"imgchest", "sxcu", "catbox"}
  /\ DOMAIN v.imgchest = {"default"}
  /\ DOMAIN v.sxcu = {"buckets", "global"}
  /\ DOMAIN v.catbox = {"default"}

Allowed == [allowed |-> TRUE, waitMs |-> 0, reason |-> Undefined,
            bucket |-> Undefined, resetAt |-> Undefined]

\* variant: a call that would use up the last remaining unit is denied
checkImgchestRateLimit_Lte(rl, cost, nowMs) ==
  LET entry == rl.imgchest.default
  IN  IF ~IsDef(entry) \/ isRateLimitExpired(Val(entry), nowMs)
      THEN Allowed
      ELSE IF Val(entry).remaining <= cost
           THEN [allowed |-> FALSE,
                 waitMs  |-> Max(Val(entry).resetAt - nowMs + 100, 100),
                 reason  |-> Def("bucket"),
                 bucket  |-> Undefined,
                 resetAt |-> Def(Val(entry).resetAt)]
           ELSE Allowed

\* the policy checks, made at time nowMs (Date.now()) against store rl
checkImgchestRateLimit(rl, cost, nowMs) ==
  LET entry == rl.imgchest.default
  IN  IF ~IsDef(entry) \/ isRateLimitExpired(Val(entry), nowMs)
      THEN Allowed
      ELSE IF Val(entry).remaining < cost
           THEN [allowed |-> FALSE,
                 waitMs  |-> Max(Val(entry).resetAt - nowMs + 100, 100),
                 reason  |-> Def("bucket"),
                 bucket  |-> Undefined,
                 resetAt |-> Def(Val(entry).resetAt)]
           ELSE Allowed

\* variant: the bucket entry is consulted before the global entry
checkSxcuRateLimit_BucketFirst(rl, bucketId, cost, nowMs) ==
  LET denies(e) == IsDef(e) /\ ~isRateLimitExpired(Val(e), nowMs) /\ Val(e).remaining < cost
      deny(e, reason, bucket) ==
        [allowed |-> FALSE, waitMs |-> Max(e.resetAt - nowMs + 100, 100),
         reason |-> Def(reason), bucket |-> bucket, resetAt |-> Def(e.resetAt)]
      bucketEntry == IF IsDef(bucketId) THEN rl.sxcu.buckets[Val(bucketId)]
                     ELSE Undefined
  IN  IF denies(bucketEntry) THEN deny(Val(bucketEntry), "bucket", bucketId)
      ELSE IF denies(rl.sxcu.global)
           THEN deny(Val(rl.sxcu.global), "global", Def(SXCU_GLOBAL_BUCKET))
           ELSE Allowed

\* variant: only the global entry is consulted
checkSxcuRateLimit_GlobalOnly(rl, bucketId, cost, nowMs) ==
  checkSxcuRateLimit_BucketFirst([rl EXCEPT !.sxcu.buckets = [b \in BucketIds |-> Undefined]],
                                 bucketId, cost, nowMs)

checkSxcuRateLimit(rl, bucketId, cost, nowMs) ==
  LET globalEntry == rl.sxcu.global
      globalDenies == /\ IsDef(globalEntry)
                      /\ ~isRateLimitExpired(Val(globalEntry), nowMs)
                      /\ Val(globalEntry).remaining < cost
      bucketEntry == IF IsDef(bucketId) THEN rl.sxcu.buckets[Val(bucketId)]
                     ELSE Undefined
      bucketDenies == /\ IsDef(bucketId)
                      /\ IsDef(bucketEntry)
                      /\ ~isRateLimitExpired(Val(bucketEntry), nowMs)
                      /\ Val(bucketEntry).remaining < cost
  IN  IF globalDenies
      THEN [allowed |-> FALSE,
            waitMs  |-> Max(Val(globalEntry).resetAt - nowMs + 100, 100),
            reason  |-> Def("global"),
            bucket  |-> Def(SXCU_GLOBAL_BUCKET),
            resetAt |-> Def(Val(globalEntry).resetAt)]
      ELSE IF bucketDenies
           THEN [allowed |-> FALSE,
                 waitMs  |-> Max(Val(bucketEntry).resetAt - nowMs + 100, 100),
                 reason  |-> Def("bucket"),
                 bucket  |-> bucketId,
                 resetAt |-> Def(Val(bucketEntry).resetAt)]
           ELSE Allowed

\* variant: without fresh headers the entry is started anew
updateImgchestRateLimit_Restart(rl, headers, nowMs) ==
  IF IsDef(headers.limit) /\ IsDef(headers.remaining)
  THEN [rl EXCEPT !.imgchest.default =
          Def([limit       |-> Val(headers.limit),
               remaining   |-> Val(headers.remaining),
               resetAt     |-> nowMs + IMGCHEST_RATE_LIMIT.windowMs,
               windowStart |-> nowMs,
               lastUpdated |-> nowMs])]
  ELSE IF IsDef(rl.imgchest.default)
       THEN [rl EXCEPT !.imgchest.default =
               Def([Val(@) EXCEPT !.remaining = Val(rl.imgchest.default).limit - 1,
                                  !.lastUpdated = nowMs])]
       ELSE rl

\* the store after updateImgchestRateLimit(headers) applied to store rl at nowMs
updateImgchestRateLimit(rl, headers, nowMs) ==
  IF IsDef(headers.limit) /\ IsDef(headers.remaining)
  THEN [rl EXCEPT !.imgchest.default =
          Def([limit       |-> Val(headers.limit),
               remaining   |-> Val(headers.remaining),
               resetAt     |-> nowMs + IMGCHEST_RATE_LIMIT.windowMs,
               windowStart |-> nowMs,
               lastUpdated |-> nowMs])]
  ELSE IF IsDef(rl.imgchest.default)
       THEN [rl EXCEPT !.imgchest.default =
               Def([Val(@) EXCEPT !.remaining = Max(0, @ - 1), !.lastUpdated = nowMs])]
       ELSE rl

\* the store after updateSxcuRateLimit(headers, isGlobalError) applied to rl;
\* isGlobalError is a boolean (an undefined argument takes the default false)
updateSxcuRateLimit(rl, headers, isGlobalError, nowMs) ==
  LET hdrGlobal == IsDef(headers.isGlobal) /\ Val(headers.isGlobal)
      global ==
        IF isGlobalError \/ hdrGlobal
        THEN Def(createRateLimitEntry(
                   [limit      |-> Def(SXCU_RATE_LIMIT.globalRequestsPerMinute),
                    remaining  |-> Def(0),
                    resetAfter |-> headers.resetAfter,
                    reset      |-> headers.reset], nowMs))
        ELSE IF IsDef(rl.sxcu.global)
             THEN Def([Val(rl.sxcu.global) EXCEPT !.remaining = Max(0, @ - 1),
                                                  !.lastUpdated = nowMs])
             ELSE Def([limit       |-> SXCU_RATE_LIMIT.globalRequestsPerMinute,
                       remaining   |-> SXCU_RATE_LIMIT.globalRequestsPerMinute - 1,
                       resetAt     |-> nowMs + SXCU_RATE_LIMIT.globalWindowMs,
                       windowStart |-> nowMs,
                       lastUpdated |-> nowMs])
      buckets ==
        IF IsDef(headers.bucket) /\ IsDef(headers.limit) /\ IsDef(headers.remaining)
        THEN [rl.sxcu.buckets EXCEPT ![Val(headers.bucket)] =
                Def(createRateLimitEntry(headers, nowMs))]
        ELSE rl.sxcu.buckets
  IN  [rl EXCEPT !.sxcu = [buckets |-> buckets, global |-> global]]

\* ------------------------------------------------------------------------
\* Inputs: requests of the clients and outcomes of the upstream calls
\* ------------------------------------------------------------------------
\* a custom RetryConfig a caller of executeWithRateLimitRetry may pass
CustomConfig ==
  [maxRetries |-> 3, baseDelayMs |-> 500, maxDelayMs |-> 5000, jitterMs |-> 100]

\* numbers of images[] entries in an imgchest request
ImageCounts == {0, 1, 20, 45}

AddImageCounts == {0, 21}

\* the non-image form fields of an imgchest request
OtherEntrySets == {<<"title", "privacy">>}

H(l, r, rs, ra, b, g) ==
  [limit |-> l, remaining |-> r, reset |-> rs, resetAfter |-> ra,
   bucket |-> b, isGlobal |-> g]

\* Response bodies.  "post:idA" / "post:idB" are JSON objects with data.id,
\* "json" is a JSON object without code and data, "code2" is JSON with
\* code 2, "globalmsg" is JSON whose error text includes 'Global rate limit',
\* "html" is text starting with '<', "garbage" is other non-JSON text,
\* "denied" is the JSON {error: 'Rate limit exceeded'} made on a local denial.
Bodies == {"post:idA", "post:idB", "json", "code2", "globalmsg", "html", "garbage",
           "denied"}

IsJson(body) == body \notin {"html", "garbage"}

DataId(body) == IF body = "post:idA" THEN Def("idA")
                ELSE IF body = "post:idB" THEN Def("idB") ELSE Undefined

Outcome(kind, status, headers, body, flag, used) ==
  [kind |-> kind, status |-> status, headers |-> headers, body |-> body,
   opIsGlobalError |-> flag, bodyUsed |-> used]

\* fetch() rejects (network error)
NetworkError == Outcome("throw", 0, NoHeaders, "garbage", Undefined, FALSE)

Fresh(rem) == H(Def(60), Def(rem), Undefined, Undefined, Undefined, Undefined)

ResetAfterHdr(us) == H(Undefined, Undefined, Undefined, Def(us), Undefined, Undefined)

ImgchestOutcomes ==
  {Outcome("response", 200, h, "post:idA", Undefined, FALSE) : h \in {NoHeaders, Fresh(1), Fresh(0)}}
  \cup {Outcome("response", 200, NoHeaders, "post:idB", Undefined, FALSE),
        Outcome("response", 200, Fresh(0), "html", Undefined, FALSE)}
  \cup {Outcome("response", 429, h, "json", Undefined, FALSE) :
          h \in {NoHeaders, Fresh(0), ResetAfterHdr(2000000)}}
  \cup {Outcome("response", 500, NoHeaders, "json", Undefined, FALSE), NetworkError}

GlobalHdr == H(Undefined, Undefined, Undefined, Def(3000000), Undefined, Def("true"))

BucketHdr(b, rem) == H(Def(5), Def(rem), Undefined, Def(3000000), Def(b), Undefined)

ResetHdr(sec) == H(Undefined, Undefined, Def(sec), Undefined, Undefined, Undefined)

SxcuOutcomes ==
  {Outcome("response", 200, h, "json", Undefined, FALSE) : h \in {NoHeaders, BucketHdr("b1", 3)}}
  \cup {Outcome("response", 429, h, b, Undefined, FALSE) :
          h \in {NoHeaders, GlobalHdr, BucketHdr("b1", 0), BucketHdr("b2", 3), ResetHdr(130)},
          b \in {"json", "code2"}}
  \cup {Outcome("response", 429, NoHeaders, b, Undefined, FALSE) : b \in {"globalmsg", "garbage"}}
  \cup {NetworkError}

\* what an arbitrary operation passed to executeWithRateLimitRetry may produce
ExecuteOutcomes(provider) ==
  IF provider = "sxcu"
  THEN {Outcome("response", 429, h, b, f, u) :
          h \in {NoHeaders, GlobalHdr, BucketHdr("b1", 0)}, b \in {"json", "code2"},
          f \in {Undefined, Def(TRUE), Def(FALSE)}, u \in BOOLEAN}
       \cup {Outcome("response", 200, NoHeaders, "json", Undefined, FALSE), NetworkError}
  ELSE {Outcome("response", 429, h, "json", Undefined, FALSE) :
          h \in {NoHeaders, ResetAfterHdr(130000000), ResetAfterHdr(0), ResetHdr(130)}}
       \cup {Outcome("response", 200, NoHeaders, "json", Undefined, FALSE), NetworkError}

Handlers == {"imgchestPost", "imgchestAdd", "sxcuCollections", "sxcuFiles", "execute"}

IsImgchestHandler(h) == h \in {"imgchestPost", "imgchestAdd"}

Outcomes(r) ==
  IF r.handler = "execute" THEN ExecuteOutcomes(r.provider)
  ELSE IF IsImgchestHandler(r.handler) THEN ImgchestOutcomes ELSE SxcuOutcomes

\* ------------------------------------------------------------------------
\* Requests: locals of a handler and of its executeWithRateLimitRetry call
\* ------------------------------------------------------------------------
NoWait == [cause |-> "none", waitMs |-> 0, rnd |-> 0, cappedWaitMs |-> 0, wakeAt |-> 0,
           headers |-> NoHeaders]

NoUrl == [path |-> "none", id |-> Undefined]

\* an upstream HTTP call: chunk index, attempt, target and form data sent
NoCall == [chunk |-> 0, attempt |-> 0, url |-> NoUrl, entries |-> <<>>, images |-> <<>>]

IdleReq ==
  [pc |-> "idle", handler |-> "none", provider |-> "none", hasToken |-> FALSE,
   bucketId |-> Undefined,
   knownBucket |-> Undefined, config |-> DEFAULT_RETRY_CONFIG,
   images |-> <<>>, otherEntries |-> <<>>, postId |-> Undefined,
   chunks |-> <<>>, i |-> 0,
   chunkFormData |-> [entries |-> <<>>, images |-> <<>>], url |-> NoUrl,
   finalResult |-> Undefined, lastResponseHeaders |-> Undefined,
   attempt |-> 0, iters |-> 0, ops |-> 0, wait |-> NoWait,
   inflight |-> {}, settled |-> 0, nCalls |-> 0, nWaits |-> 0, lastCall |-> NoCall,
   pending |-> Undefined, interp |-> Undefined, ret |-> Undefined,
   response |-> Undefined]

\* the requests a client (or a caller of executeWithRateLimitRetry) can make
Requests ==
  {[handler |-> "imgchestPost", provider |-> "imgchest", bucketId |-> Undefined,
    config |-> DEFAULT_RETRY_CONFIG, hasToken |-> TRUE, nImages |-> n,
    otherEntries |-> o, postId |-> Undefined] : n \in ImageCounts, o \in OtherEntrySets}
  \cup
  {[handler |-> "imgchestAdd", provider |-> "imgchest", bucketId |-> Undefined,
    config |-> DEFAULT_RETRY_CONFIG, hasToken |-> TRUE, nImages |-> n,
    otherEntries |-> <<>>, postId |-> Def("idA")] : n \in AddImageCounts}
  \cup
  {[handler |-> h, provider |-> "imgchest", bucketId |-> Undefined,
    config |-> DEFAULT_RETRY_CONFIG, hasToken |-> FALSE, nImages |-> 1,
    otherEntries |-> <<>>, postId |-> IF h = "imgchestAdd" THEN Def("idA") ELSE Undefined] :
      h \in {"imgchestPost", "imgchestAdd"}}
  \cup
  {[handler |-> h, provider |-> "sxcu", bucketId |-> Undefined,
    config |-> DEFAULT_RETRY_CONFIG, hasToken |-> FALSE, nImages |-> 0,
    otherEntries |-> <<>>, postId |-> Undefined] : h \in {"sxcuCollections", "sxcuFiles"}}
  \cup
  {[handler |-> "execute", provider |-> "sxcu", bucketId |-> b,
    config |-> DEFAULT_RETRY_CONFIG, hasToken |-> FALSE, nImages |-> 0,
    otherEntries |-> <<>>, postId |-> Undefined] : b \in {Undefined, Def("b1")}}
  \cup
  {[handler |-> "execute", provider |-> "imgchest", bucketId |-> Undefined,
    config |-> CustomConfig, hasToken |-> FALSE, nImages |-> 0,
    otherEntries |-> <<>>, postId |-> Undefined]}

\* images.slice(i, i + MAX) for i = 0, MAX, 2*MAX, ... (handleImgchestPost/Add)
RECURSIVE chunkFrom(_, _)
chunkFrom(images, i) ==
  IF i >= Len(images) THEN <<>>
  ELSE <<SubSeq(images, i + 1, Min(i + MAX_IMGCHEST_IMAGES_PER_REQUEST, Len(images)))>>
       \o chunkFrom(images, i + MAX_IMGCHEST_IMAGES_PER_REQUEST)

\* variant: a trailing chunk of fewer than MAX images is dropped
chunkImages_DropPartial(images) ==
  SelectSeq(chunkFrom(images, 0),
            LAMBDA c : Len(c) = MAX_IMGCHEST_IMAGES_PER_REQUEST)

chunkImages(images) == chunkFrom(images, 0)

IsOk(status) == status >= 200 /\ status <= 299

copyRateLimitHeaders(from) ==
  [from EXCEPT !.bucket = IF @ = Def("") THEN Undefined ELSE @,
               !.isGlobal = IF @ = Def("") THEN Undefined ELSE @]

HttpResponse(status, error, chunk, body, headers) ==
  [status |-> status, error |-> error, chunk |-> chunk, body |-> body,
   headers |-> headers]

Done(r, response) == [r EXCEPT !.pc = "done", !.response = response]

\* variant: every chunk of a post carries the metadata fields
StartChunk_MetadataAlways(r, i) ==
  LET isFirstChunk == i = 0
      entries == IF r.handler = "imgchestPost" THEN r.otherEntries ELSE <<>>
      url == IF r.handler = "imgchestAdd" THEN [path |-> "add", id |-> r.postId]
             ELSE IF isFirstChunk THEN [path |-> "post", id |-> Undefined]
             ELSE [path |-> "add",
                   id |-> IF IsDef(r.finalResult) THEN DataId(Val(r.finalResult))
                          ELSE Undefined]
  IN  [r EXCEPT !.pc = "loop", !.i = i,
                !.chunkFormData = [entries |-> entries, images |-> r.chunks[i + 1]],
                !.url = url,
                !.attempt = 0, !.iters = 0, !.ops = 0, !.wait = NoWait,
                !.ret = Undefined]

\* the handler's loop body for chunk i up to its call of executeWithRateLimitRetry
StartChunk(r, i) ==
  LET isFirstChunk == i = 0
      entries == IF r.handler = "imgchestPost" /\ isFirstChunk THEN r.otherEntries ELSE <<>>
      url == IF r.handler = "imgchestAdd" THEN [path |-> "add", id |-> r.postId]
             ELSE IF isFirstChunk THEN [path |-> "post", id |-> Undefined]
             ELSE [path |-> "add",
                   id |-> IF IsDef(r.finalResult) THEN DataId(Val(r.finalResult))
                          ELSE Undefined]
  IN  [r EXCEPT !.pc = "loop", !.i = i,
                !.chunkFormData = [entries |-> entries, images |-> r.chunks[i + 1]],
                !.url = url,
                !.attempt = 0, !.iters = 0, !.ops = 0, !.wait = NoWait,
                !.ret = Undefined]

\* variant: after a chunk failed with a non-success status the handler goes on
\* to the next chunk
OnReturn_ContinueOnFailure(r, ret) ==
  LET r0 == [r EXCEPT !.ret = Def(ret), !.settled = @ + 1, !.inflight = {}]
      r1 == [r0 EXCEPT !.finalResult = Def(ret.body),
                       !.lastResponseHeaders = Def(ret.headers)]
  IN  IF IsImgchestHandler(r.handler)
      THEN IF r.i + 1 < Len(r.chunks)
           THEN StartChunk(r1, r.i + 1)
           ELSE Done(r1, Def(HttpResponse(200, Undefined, Undefined, ret.body,
                                          copyRateLimitHeaders(ret.headers))))
      ELSE IF r.handler = "execute"
           THEN Done(r0, Undefined)
           ELSE Done(r0, Def(HttpResponse(IF IsOk(ret.status) THEN 200 ELSE ret.status,
                                          Undefined, Undefined, ret.body,
                                          copyRateLimitHeaders(ret.headers))))

\* variant: the final response carries the headers kept from the chunk
\* before the last one, when there is one
OnReturn_StaleHeaders(r, ret) ==
  LET r0 == [r EXCEPT !.ret = Def(ret), !.settled = @ + 1, !.inflight = {}]
  IN  IF IsImgchestHandler(r.handler)
      THEN IF ~IsOk(ret.status)
           THEN Done(r0, Def(HttpResponse(ret.status, Def("Imgchest API error"),
                                          Def(r.i + 1), ret.body,
                                          IF impl = "do" THEN copyRateLimitHeaders(ret.headers)
                                          ELSE NoHeaders)))
           ELSE LET r1 == [r0 EXCEPT !.finalResult = Def(ret.body),
                                     !.lastResponseHeaders = Def(ret.headers)]
                IN  IF r.i + 1 < Len(r.chunks)
                    THEN StartChunk(r1, r.i + 1)
                    ELSE Done(r1, Def(HttpResponse(200, Undefined, Undefined, ret.body,
                                 copyRateLimitHeaders(IF IsDef(r.lastResponseHeaders)
                                                      THEN Val(r.lastResponseHeaders)
                                                      ELSE ret.headers))))
      ELSE IF r.handler = "execute"
           THEN Done(r0, Undefined)
           ELSE Done(r0, Def(HttpResponse(IF IsOk(ret.status) THEN 200 ELSE ret.status,
                                          Undefined, Undefined, ret.body,
                                          copyRateLimitHeaders(ret.headers))))

\* the handler after executeWithRateLimitRetry returned ret = {response, result}
OnReturn(r, ret) ==
  LET r0 == [r EXCEPT !.ret = Def(ret), !.settled = @ + 1, !.inflight = {}]
  IN  IF IsImgchestHandler(r.handler)
      THEN IF ~IsOk(ret.status)
           THEN Done(r0, Def(HttpResponse(ret.status, Def("Imgchest API error"),
                                          Def(r.i + 1), ret.body,
                                          IF impl = "do" THEN copyRateLimitHeaders(ret.headers)
                                          ELSE NoHeaders)))
           ELSE LET r1 == [r0 EXCEPT !.finalResult = Def(ret.body),
                                     !.lastResponseHeaders = Def(ret.headers)]
                IN  IF r.i + 1 < Len(r.chunks)
                    THEN StartChunk(r1, r.i + 1)
                    ELSE Done(r1, Def(HttpResponse(200, Undefined, Undefined, ret.body,
                                                   copyRateLimitHeaders(ret.headers))))
      ELSE IF r.handler = "execute"
           THEN Done(r0, Undefined)
           ELSE Done(r0, Def(HttpResponse(IF IsOk(ret.status) THEN 200 ELSE ret.status,
                                          Undefined, Undefined, ret.body,
                                          copyRateLimitHeaders(ret.headers))))

\* variant: the imgchest handlers answer with what they have on an error
OnThrow_Swallowed(r, error) ==
  LET r0 == [r EXCEPT !.ret = Def(error), !.settled = @ + 1, !.inflight = {}]
  IN  IF IsImgchestHandler(r.handler)
      THEN Done(r0, Def(HttpResponse(200, Undefined, Undefined, "json", NoHeaders)))
      ELSE IF r.handler = "execute"
           THEN Done(r0, Undefined)
           ELSE Done(r0, Def(HttpResponse(500, Def(error.message), Undefined, "json", NoHeaders)))

\* the handler after executeWithRateLimitRetry threw error
OnThrow(r, error) ==
  LET r0 == [r EXCEPT !.ret = Def(error), !.settled = @ + 1, !.inflight = {}]
  IN  IF IsImgchestHandler(r.handler)
      THEN Done(r0, Def(HttpResponse(500, Def(error.message), Def(r.i + 1), "json", NoHeaders)))
      ELSE IF r.handler = "execute"
           THEN Done(r0, Undefined)
           ELSE Done(r0, Def(HttpResponse(500, Def(error.message), Undefined, "json", NoHeaders)))

Returned(status, headers, body) ==
  [kind |-> "return", status |-> status, headers |-> headers, body |-> body,
   message |-> "", resetAt |-> Undefined]

Thrown(message, resetAt) ==
  [kind |-> "throw", status |-> 0, headers |-> NoHeaders, body |-> "json",
   message |-> message, resetAt |-> resetAt]

\* message of the error thrown on a 429 at the last attempt
retriesExceeded(provider, config) ==
  "Rate limit exceeded for " \o provider \o " after "
    \o ToString(config.maxRetries) \o " retries"

\* variant: the shorter of the provider's wait and the backoff delay is slept
waitWithBackoff_Shorter(waitMs, attempt, config, rnd) ==
  LET backoffMs == calculateExponentialBackoff(attempt, config, rnd)
      actualWaitMs == Min(waitMs, backoffMs)
  IN  Min(actualWaitMs, config.maxDelayMs)

\* variant: the wait is not capped at maxDelayMs
waitWithBackoff_Uncapped(waitMs, attempt, config, rnd) ==
  Max(waitMs, calculateExponentialBackoff(attempt, config, rnd))

\* the duration slept by waitWithBackoff(waitMs, attempt, config)
waitWithBackoff(waitMs, attempt, config, rnd) ==
  LET backoffMs == calculateExponentialBackoff(attempt, config, rnd)
      actualWaitMs == Max(waitMs, backoffMs)
  IN  Min(actualWaitMs, config.maxDelayMs)

\* variant: while a chunk waits for its retry the handler goes on to the
\* next chunk
StartWait_NextChunk(r, cause, waitMs, rnd) ==
  IF r.i + 1 < Len(r.chunks)
  THEN StartChunk([r EXCEPT !.nWaits = @ + 1], r.i + 1)
  ELSE [r EXCEPT !.pc = "waiting",
                 !.inflight = {},
                 !.nWaits = @ + 1,
                 !.wait = [cause |-> cause, waitMs |-> waitMs, rnd |-> rnd,
                           cappedWaitMs |-> waitWithBackoff(waitMs, r.attempt, r.config, rnd),
                           wakeAt |-> now + waitWithBackoff(waitMs, r.attempt, r.config, rnd),
                           headers |-> NoHeaders]]

\* the request suspended in waitWithBackoff
StartWait(r, cause, waitMs, rnd) ==
  LET cappedWaitMs == waitWithBackoff(waitMs, r.attempt, r.config, rnd)
  IN  [r EXCEPT !.pc = "waiting",
                !.inflight = {},
                !.nWaits = @ + 1,
                !.wait = [cause |-> cause, waitMs |-> waitMs, rnd |-> rnd,
                          cappedWaitMs |-> cappedWaitMs, wakeAt |-> now + cappedWaitMs,
                          headers |-> NoHeaders]]

\* ------------------------------------------------------------------------
\* Interpretation of upstream responses
\* ------------------------------------------------------------------------
isSxcuGlobalError(body) ==
  IF IsJson(body) THEN body = "code2" \/ body = "globalmsg" ELSE FALSE

Truthy(flag) == IsDef(flag) /\ Val(flag)

\* isGlobalError as executeWithRateLimitRetry decides it for a sxcu 429
\* (undefined, true or false)
sxcuIsGlobalError(headers, opIsGlobalError, bodyUsed, body) ==
  LET isGlobalError == headers.isGlobal
  IN  IF IsDef(opIsGlobalError)
      THEN IF Truthy(isGlobalError) THEN isGlobalError ELSE opIsGlobalError
      ELSE IF ~Truthy(isGlobalError) /\ ~bodyUsed
           THEN Def(isSxcuGlobalError(body))
           ELSE isGlobalError

\* whether executeWithRateLimitRetry reads the body of a sxcu 429
sxcuInspectsBody(headers, opIsGlobalError, bodyUsed) ==
  ~IsDef(opIsGlobalError) /\ ~Truthy(headers.isGlobal) /\ ~bodyUsed

\* what executeWithRateLimitRetry knew and decided on a sxcu 429
Interpretation(headers, opIsGlobalError, bodyUsed, body) ==
  [opIsGlobalError |-> opIsGlobalError,
   headerIsGlobal  |-> headers.isGlobal,
   bodyUsed        |-> bodyUsed,
   inspected       |-> sxcuInspectsBody(headers, opIsGlobalError, bodyUsed),
   isGlobalError   |-> sxcuIsGlobalError(headers, opIsGlobalError, bodyUsed, body)]

\* The operation closure of handler r.handler run on upstream outcome o with
\* store rl: whether it throws, what it returns besides response and result,
\* and the store it leaves (saved: saveRateLimits was called).
Operation(r, o, rl) ==
  LET headers == parseRateLimitHeaders(o.headers)
      base == [thrown |-> o.kind = "throw", message |-> "network",
               isGlobalError |-> Undefined, bodyUsed |-> FALSE,
               knownBucket |-> r.knownBucket, rl |-> rl, saved |-> FALSE]
  IN  IF o.kind = "throw" THEN base
      ELSE IF IsImgchestHandler(r.handler)
      THEN [base EXCEPT !.rl = updateImgchestRateLimit(rl, headers, now),
                        !.saved = TRUE,
                        !.bodyUsed = TRUE,
                        !.thrown = ~IsJson(o.body),
                        !.message = IF o.body = "html" THEN "html" ELSE "parse"]
      ELSE IF r.handler = "sxcuCollections"
      THEN [base EXCEPT !.knownBucket = headers.bucket,
                        !.isGlobalError = IF o.status = 429 THEN headers.isGlobal
                                          ELSE Def(FALSE),
                        !.bodyUsed = TRUE,
                        !.thrown = ~IsJson(o.body),
                        !.message = "parse"]
      ELSE IF r.handler = "sxcuFiles"
      THEN [base EXCEPT !.knownBucket = headers.bucket,
                        !.isGlobalError =
                           Def(o.status = 429 /\ (Truthy(headers.isGlobal) \/ o.body = "code2")),
                        !.bodyUsed = TRUE]
      ELSE [base EXCEPT !.isGlobalError = o.opIsGlobalError, !.bodyUsed = o.bodyUsed]

\* variant: the reset time is rounded down to whole seconds
deniedHeaders_Floor(checkResult) ==
  [limit      |-> Def(5),
   remaining  |-> Def(0),
   reset      |-> IF IsDef(checkResult.resetAt) /\ Val(checkResult.resetAt) /= 0
                  THEN Def(Val(checkResult.resetAt) \div 1000) ELSE Undefined,
   resetAfter |-> Undefined,
   bucket     |-> IF IsDef(checkResult.bucket) /\ Val(checkResult.bucket) /= ""
                  THEN checkResult.bucket ELSE Undefined,
   isGlobal   |-> IF checkResult.reason = Def("global") THEN Def("true") ELSE Undefined]

\* headers of the 429 synthesized on a local sxcu denial
deniedHeaders(checkResult) ==
  [limit      |-> Def(5),
   remaining  |-> Def(0),
   reset      |-> IF IsDef(checkResult.resetAt) /\ Val(checkResult.resetAt) /= 0
                  THEN Def(CeilDiv(Val(checkResult.resetAt), 1000)) ELSE Undefined,
   resetAfter |-> Undefined,
   bucket     |-> IF IsDef(checkResult.bucket) /\ Val(checkResult.bucket) /= ""
                  THEN checkResult.bucket ELSE Undefined,
   isGlobal   |-> IF checkResult.reason = Def("global") THEN Def("true") ELSE Undefined]

\* ------------------------------------------------------------------------
\* Actions
\* ------------------------------------------------------------------------
\* an entry of a damaged file: exhausted, with a reset time far ahead that is
\* not a whole second
StoredEntry ==
  [limit |-> 60, remaining |-> 0, resetAt |-> StartTime + 1000 * Quantum + 1,
   windowStart |-> StartTime - 3 * Quantum, lastUpdated |-> StartTime - 3 * Quantum]

\* what the rate-limit file may hold when the server starts: nothing, text
\* that is not JSON, an object without catbox, an object whose catbox has no
\* default property
StartupFiles ==
  {Undefined,
   Def([text |-> "not json"]),
   Def([imgchest |-> [default |-> Def(StoredEntry)],
        sxcu |-> [buckets |-> [b \in BucketIds |-> Undefined], global |-> Undefined]]),
   Def([imgchest |-> [default |-> Def(StoredEntry)],
        sxcu |-> [buckets |-> [b \in BucketIds |-> Undefined], global |-> Def(StoredEntry)],
        catbox |-> [other |-> Undefined]])}

\* the server after module initialisation and loadRateLimits()
Init ==
  /\ now = StartTime
  /\ \E file \in StartupFiles :
       /\ disk = file
       /\ rateLimits = loadRateLimits(EmptyRateLimits, file, StartTime)
  /\ impl = "bun"
  /\ req = [p \in Procs |-> IdleReq]
  /\ served = 0
  /\ uploader = NewUploader

\* the same program as the Durable Object RateLimiter
InitDO ==
  /\ now = StartTime
  /\ rateLimits = EmptyRateLimits
  /\ disk = Undefined
  /\ impl = "do"
  /\ req = [p \in Procs |-> IdleReq]
  /\ served = 0
  /\ uploader = NewUploader

TrackedEntries ==
  {Val(e) : e \in {x \in {rateLimits.imgchest.default, rateLimits.sxcu.global}
                          \cup {rateLimits.sxcu.buckets[b] : b \in BucketIds} : IsDef(x)}}

\* the clock advances to just before, or exactly to, the reset of an entry
TickTargets ==
  {t \in UNION {{e.resetAt - 1, e.resetAt} : e \in TrackedEntries} :
     t > now /\ t <= StartTime + Horizon}

\* time passes while no request is being served
Tick(t) ==
  /\ \A p \in Procs : req[p].pc \in {"idle", "done"}
  /\ now' = t
  /\ UNCHANGED <<rateLimits, disk, impl, req, served, uploader>>

\* variant: the handlers do not look for the credential
StartRequest_TokenUnchecked(p, q) ==
  LET images == [k \in 1..q.nImages |-> k]
      r == [IdleReq EXCEPT !.handler = q.handler, !.provider = q.provider,
                           !.hasToken = q.hasToken,
                           !.bucketId = q.bucketId, !.config = q.config,
                           !.images = images, !.otherEntries = q.otherEntries,
                           !.postId = q.postId, !.chunks = chunkImages(images)]
  IN  /\ req[p].pc \in {"idle", "done"}
      /\ served < MaxRequests
      /\ served' = served + 1
      /\ rateLimits' = IF q.handler = "execute" THEN rateLimits
                       ELSE cleanupExpiredEntries(rateLimits, now)
      /\ req' = [req EXCEPT ![p] =
           IF IsImgchestHandler(q.handler)
           THEN IF Len(images) = 0
                THEN Done(r, Def(HttpResponse(400, Def("No images provided"), Undefined,
                                              "json", NoHeaders)))
                ELSE StartChunk(r, 0)
           ELSE [r EXCEPT !.pc = "loop"]]
      /\ UNCHANGED <<now, disk, impl, uploader>>

\* fetch(req) of the server up to the handler's call of executeWithRateLimitRetry
StartRequest(p, q) ==
  LET images == [k \in 1..q.nImages |-> k]
      r == [IdleReq EXCEPT !.handler = q.handler, !.provider = q.provider,
                           !.hasToken = q.hasToken,
                           !.bucketId = q.bucketId, !.config = q.config,
                           !.images = images, !.otherEntries = q.otherEntries,
                           !.postId = q.postId, !.chunks = chunkImages(images)]
  IN  /\ req[p].pc \in {"idle", "done"}
      /\ served < MaxRequests
      /\ served' = served + 1
      /\ rateLimits' = IF q.handler = "execute" THEN rateLimits
                       ELSE cleanupExpiredEntries(rateLimits, now)
      /\ req' = [req EXCEPT ![p] =
           IF IsImgchestHandler(q.handler)
           THEN IF ~q.hasToken
                THEN Done(r, Def(HttpResponse(401, Def("token"), Undefined, "json", NoHeaders)))
                ELSE IF Len(images) = 0
                THEN Done(r, Def(HttpResponse(400, Def("No images provided"), Undefined,
                                              "json", NoHeaders)))
                ELSE StartChunk(r, 0)
           ELSE [r EXCEPT !.pc = "loop"]]
      /\ UNCHANGED <<now, disk, impl, uploader>>

\* variant: a local denial is answered with the synthesized 429 for every
\* provider
Denied_AllReturn(r, checkResult, rnd) ==
  OnReturn(r, Returned(429, deniedHeaders(checkResult), "denied"))

\* variant: a denied sxcu call waits and retries as an imgchest call does
Denied_SxcuWaits(r, checkResult, rnd) ==
  IF r.attempt = r.config.maxRetries
  THEN OnThrow(r, Thrown("Rate limit exceeded. Reset at",
                         IF IsDef(checkResult.resetAt) /\ Val(checkResult.resetAt) /= 0
                         THEN checkResult.resetAt ELSE Def(now)))
  ELSE StartWait(r, "preflight", checkResult.waitMs, rnd)

\* the pre-flight check denied: executeWithRateLimitRetry returns the
\* synthesized 429 (sxcu), throws (last attempt) or waits
Denied(r, checkResult, rnd) ==
  IF r.provider = "sxcu"
  THEN OnReturn(r, Returned(429, deniedHeaders(checkResult), "denied"))
  ELSE IF r.attempt = r.config.maxRetries
  THEN OnThrow(r, Thrown("Rate limit exceeded. Reset at",
                         IF IsDef(checkResult.resetAt) /\ Val(checkResult.resetAt) /= 0
                         THEN checkResult.resetAt ELSE Def(now)))
  ELSE StartWait(r, "preflight", checkResult.waitMs, rnd)

\* the pre-flight check allowed: the operation is invoked and its upstream
\* call is in flight
Invoke(r) ==
  [r EXCEPT !.pc = "fetching", !.ops = @ + 1,
            !.inflight = @ \cup {r.i},
            !.nCalls = @ + 1,
            !.lastCall = [chunk |-> r.i, attempt |-> r.attempt, url |-> r.url,
                          entries |-> r.chunkFormData.entries,
                          images |-> r.chunkFormData.images]]

\* one pass through the top of the retry loop: the pre-flight check
Preflight(p, rnd) ==
  LET r == req[p]
      rl == IF impl = "bun" THEN cleanupExpiredEntries(rateLimits, now) ELSE rateLimits
      checkResult == IF r.provider = "imgchest"
                     THEN checkImgchestRateLimit(rl, 1, now)
                     ELSE checkSxcuRateLimit(rl, r.bucketId, 1, now)
      r1 == [r EXCEPT !.iters = @ + 1]
  IN  /\ r.pc = "loop"
      /\ rateLimits' = rl
      /\ req' = [req EXCEPT ![p] =
           IF ~checkResult.allowed THEN Denied(r1, checkResult, rnd) ELSE Invoke(r1)]
      /\ UNCHANGED <<now, disk, impl, served, uploader>>

FireTime(due) == CeilDiv(due, Quantum) * Quantum

\* variant: a wait after a thrown error does not use up an attempt
WaitDone_ErrorsFree(p) ==
  LET r == req[p]
  IN  /\ r.pc = "waiting"
      /\ FireTime(Max(now, r.wait.wakeAt)) <= StartTime + Horizon
      /\ now' = FireTime(Max(now, r.wait.wakeAt))
      /\ rateLimits' = IF impl = "do" /\ r.wait.cause = "preflight"
                       THEN cleanupExpiredEntries(rateLimits, now')
                       ELSE rateLimits
      /\ req' = [req EXCEPT ![p] =
           [r EXCEPT !.pc = "loop",
                     !.attempt = IF r.wait.cause = "error" THEN @ ELSE @ + 1,
                     !.wait = NoWait]]
      /\ UNCHANGED <<disk, impl, served, uploader>>

\* variant: a wait after a 429 does not use up an attempt
WaitDone_ThrottleFree(p) ==
  LET r == req[p]
  IN  /\ r.pc = "waiting"
      /\ FireTime(Max(now, r.wait.wakeAt)) <= StartTime + Horizon
      /\ now' = FireTime(Max(now, r.wait.wakeAt))
      /\ rateLimits' = IF impl = "do" /\ r.wait.cause = "preflight"
                       THEN cleanupExpiredEntries(rateLimits, now')
                       ELSE rateLimits
      /\ req' = [req EXCEPT ![p] =
           [r EXCEPT !.pc = "loop",
                     !.attempt = IF r.wait.cause = "429" THEN @ ELSE @ + 1,
                     !.wait = NoWait]]
      /\ UNCHANGED <<disk, impl, served, uploader>>

\* the timer of waitWithBackoff fires and the loop continues
WaitDone(p) ==
  LET r == req[p]
  IN  /\ r.pc = "waiting"
      /\ FireTime(Max(now, r.wait.wakeAt)) <= StartTime + Horizon
      /\ now' = FireTime(Max(now, r.wait.wakeAt))
      /\ rateLimits' = IF impl = "do" /\ r.wait.cause = "preflight"
                       THEN cleanupExpiredEntries(rateLimits, now')
                       ELSE rateLimits
      /\ req' = [req EXCEPT ![p] =
           IF r.attempt + 1 <= r.config.maxRetries
           THEN [r EXCEPT !.pc = "loop", !.attempt = @ + 1, !.wait = NoWait]
           ELSE OnThrow(r, Thrown("Unknown error during rate-limited operation", Undefined))]
      /\ UNCHANGED <<disk, impl, served, uploader>>

\* variant: a sxcu 429 is waited out and retried as an imgchest 429 is
Respond_SxcuWaits(p, o, rnd) ==
  LET r == req[p]
      op == Operation(r, o, rateLimits)
      r1 == [r EXCEPT !.knownBucket = op.knownBucket]
      headers == parseRateLimitHeaders(o.headers)
      atLast == r.attempt = r.config.maxRetries
      g == sxcuIsGlobalError(headers, op.isGlobalError, op.bodyUsed, o.body)
      rlSxcu == updateSxcuRateLimit(op.rl, headers, Truthy(g), now)
      rlImgchest == updateImgchestRateLimit(op.rl, headers, now)
  IN  /\ r.pc = "fetching"
      /\ IF op.thrown
         THEN /\ rateLimits' = op.rl
              /\ disk' = IF op.saved THEN Def(op.rl) ELSE disk
              /\ req' = [req EXCEPT ![p] =
                   IF atLast THEN OnThrow(r1, Thrown(op.message, Undefined))
                   ELSE StartWait(r1, "error", 1000, rnd)]
         ELSE IF o.status = 429
         THEN IF r.provider = "sxcu"
              THEN /\ rateLimits' = rlSxcu
                   /\ disk' = Def(rlSxcu)
                   /\ req' = [req EXCEPT ![p] =
                        IF atLast
                        THEN OnReturn([r1 EXCEPT !.interp =
                                         Def(Interpretation(headers, op.isGlobalError,
                                                            op.bodyUsed, o.body))],
                                      Returned(o.status, o.headers, o.body))
                        ELSE StartWait(r1, "429",
                                       calculateWaitTimeFromHeaders(headers, now), rnd)]
              ELSE /\ rateLimits' = rlImgchest
                   /\ disk' = Def(rlImgchest)
                   /\ req' = [req EXCEPT ![p] =
                        IF atLast
                        THEN OnThrow(r1, Thrown(retriesExceeded(r.provider, r.config), Undefined))
                        ELSE [StartWait(r1, "429",
                                        calculateWaitTimeFromHeaders(headers, now), rnd)
                                EXCEPT !.wait.headers = headers]]
         ELSE /\ rateLimits' = op.rl
              /\ disk' = IF op.saved THEN Def(op.rl) ELSE disk
              /\ req' = [req EXCEPT ![p] =
                   OnReturn(r1, Returned(o.status, o.headers, o.body))]
      /\ UNCHANGED <<now, impl, served, uploader>>

\* variant: a response with an error status other than 429 is retried
Respond_RetriesErrorStatus(p, o, rnd) ==
  LET r == req[p]
      op == Operation(r, o, rateLimits)
      r1 == [r EXCEPT !.knownBucket = op.knownBucket]
      headers == parseRateLimitHeaders(o.headers)
      atLast == r.attempt = r.config.maxRetries
      g == sxcuIsGlobalError(headers, op.isGlobalError, op.bodyUsed, o.body)
      rlSxcu == updateSxcuRateLimit(op.rl, headers, Truthy(g), now)
      rlImgchest == updateImgchestRateLimit(op.rl, headers, now)
  IN  /\ r.pc = "fetching"
      /\ IF op.thrown
         THEN /\ rateLimits' = op.rl
              /\ disk' = IF op.saved THEN Def(op.rl) ELSE disk
              /\ req' = [req EXCEPT ![p] =
                   IF atLast THEN OnThrow(r1, Thrown(op.message, Undefined))
                   ELSE StartWait(r1, "error", 1000, rnd)]
         ELSE IF o.status = 429
         THEN IF r.provider = "sxcu"
              THEN /\ rateLimits' = rlSxcu
                   /\ disk' = Def(rlSxcu)
                   /\ req' = [req EXCEPT ![p] =
                        OnReturn([r1 EXCEPT !.interp =
                                    Def(Interpretation(headers, op.isGlobalError,
                                                       op.bodyUsed, o.body))],
                                 Returned(o.status, o.headers, o.body))]
              ELSE /\ rateLimits' = rlImgchest
                   /\ disk' = Def(rlImgchest)
                   /\ req' = [req EXCEPT ![p] =
                        IF atLast
                        THEN OnThrow(r1, Thrown(retriesExceeded(r.provider, r.config), Undefined))
                        ELSE [StartWait(r1, "429",
                                        calculateWaitTimeFromHeaders(headers, now), rnd)
                                EXCEPT !.wait.headers = headers]]
         ELSE /\ rateLimits' = op.rl
              /\ disk' = IF op.saved THEN Def(op.rl) ELSE disk
              /\ req' = [req EXCEPT ![p] =
                   IF ~IsOk(o.status) /\ ~atLast
                   THEN StartWait(r1, "status", 1000, rnd)
                   ELSE OnReturn(r1, Returned(o.status, o.headers, o.body))]
      /\ UNCHANGED <<now, impl, served, uploader>>

\* the upstream call of request p ends with outcome o; the operation, the
\* interpretation by executeWithRateLimitRetry and the handler run up to the
\* next suspension
Respond(p, o, rnd) ==
  LET r == req[p]
      op == Operation(r, o, rateLimits)
      r1 == [r EXCEPT !.knownBucket = op.knownBucket]
      headers == parseRateLimitHeaders(o.headers)
      atLast == r.attempt = r.config.maxRetries
      g == sxcuIsGlobalError(headers, op.isGlobalError, op.bodyUsed, o.body)
      rlSxcu == updateSxcuRateLimit(op.rl, headers, Truthy(g), now)
      rlImgchest == updateImgchestRateLimit(op.rl, headers, now)
  IN  /\ r.pc = "fetching"
      /\ IF op.thrown
         THEN /\ rateLimits' = op.rl
              /\ disk' = IF op.saved THEN Def(op.rl) ELSE disk
              /\ req' = [req EXCEPT ![p] =
                   IF atLast THEN OnThrow(r1, Thrown(op.message, Undefined))
                   ELSE StartWait(r1, "error", 1000, rnd)]
         ELSE IF o.status = 429
         THEN IF r.provider = "sxcu"
              THEN /\ rateLimits' = rlSxcu
                   /\ disk' = Def(rlSxcu)
                   /\ req' = [req EXCEPT ![p] =
                        OnReturn([r1 EXCEPT !.interp =
                                    Def(Interpretation(headers, op.isGlobalError,
                                                       op.bodyUsed, o.body))],
                                 Returned(o.status, o.headers, o.body))]
              ELSE /\ rateLimits' = rlImgchest
                   /\ disk' = Def(rlImgchest)
                   /\ req' = [req EXCEPT ![p] =
                        IF atLast
                        THEN OnThrow(r1, Thrown(retriesExceeded(r.provider, r.config), Undefined))
                        ELSE [StartWait(r1, "429",
                                        calculateWaitTimeFromHeaders(headers, now), rnd)
                                EXCEPT !.wait.headers = headers]]
         ELSE /\ rateLimits' = op.rl
              /\ disk' = IF op.saved THEN Def(op.rl) ELSE disk
              /\ req' = [req EXCEPT ![p] =
                   OnReturn(r1, Returned(o.status, o.headers, o.body))]
      /\ UNCHANGED <<now, impl, served, uploader>>

Next ==
  \/ \E t \in TickTargets : Tick(t)
  \/ \E p \in Procs, q \in Requests : StartRequest(p, q)
  \/ \E p \in Procs, rnd \in RandomDraws : Preflight(p, rnd)
  \/ \E p \in Procs : WaitDone(p)
  \/ \E p \in Procs, rnd \in RandomDraws :
       \E o \in Outcomes(req[p]) : Respond(p, o, rnd)

Spec == Init /\ [][Next]_vars

SpecDO == InitDO /\ [][Next]_vars

\* ------------------------------------------------------------------------
\* Properties
\* ------------------------------------------------------------------------
AnyBucketId == {Undefined} \cup {Def(b) : b \in BucketIds}

\* the store without the entries whose reset time has been reached
Live(e) == IF IsDef(e) /\ now >= Val(e).resetAt THEN Undefined ELSE e

LiveStore ==
  [imgchest |-> [default |-> Live(rateLimits.imgchest.default)],
   sxcu     |-> [buckets |-> [b \in BucketIds |-> Live(rateLimits.sxcu.buckets[b])],
                 global  |-> Live(rateLimits.sxcu.global)],
   catbox   |-> [default |-> Live(rateLimits.catbox.default)]]

\* C1: while the sxcu global entry is unexpired and has remaining < cost,
\* checkSxcuRateLimit denies with reason 'global' and the synthetic global
\* bucket identifier for every bucket id (null included), whatever that
\* bucket's own entry would allow.
C1_GlobalDenialSupersedes ==
  \A bucketId \in AnyBucketId, cost \in Costs :
    LET g == rateLimits.sxcu.global
        c == checkSxcuRateLimit(rateLimits, bucketId, cost, now)
    IN  (IsDef(g) /\ now < Val(g).resetAt /\ Val(g).remaining < cost)
          => /\ ~c.allowed
             /\ c.reason = Def("global")
             /\ c.bucket = Def(SXCU_GLOBAL_BUCKET)

\* a global entry with remaining 0 is in force next to a bucket entry that
\* would allow a call, and next to one that would deny it
C1_Witness ==
  /\ IsDef(rateLimits.sxcu.global)
  /\ now < Val(rateLimits.sxcu.global).resetAt
  /\ Val(rateLimits.sxcu.global).remaining = 0
  /\ \E b \in BucketIds :
       /\ IsDef(rateLimits.sxcu.buckets[b])
       /\ now < Val(rateLimits.sxcu.buckets[b]).resetAt
       /\ Val(rateLimits.sxcu.buckets[b]).remaining >= 1

\* C2: checkImgchestRateLimit(cost) allows with waitMs 0 when there is no
\* entry, when the entry is expired or when remaining >= cost; otherwise it
\* denies with waitMs = max(resetAt - now + 100, 100), reason 'bucket' and the
\* entry's resetAt.  A pre-flight pass of an imgchest call leaves the store as
\* it was, up to the sweep of expired entries that precedes the check.
C2_State ==
  \A cost \in Costs :
    LET e == rateLimits.imgchest.default
        c == checkImgchestRateLimit(rateLimits, cost, now)
    IN  IF ~IsDef(e) \/ now >= Val(e).resetAt \/ Val(e).remaining >= cost
        THEN c.allowed /\ c.waitMs = 0
        ELSE /\ ~c.allowed
             /\ c.waitMs = Max(Val(e).resetAt - now + 100, 100)
             /\ c.reason = Def("bucket")
             /\ c.resetAt = Def(Val(e).resetAt)

C2_Step ==
  \A p \in Procs :
    (req[p].pc = "loop" /\ req[p].provider = "imgchest" /\ req'[p] /= req[p])
      => rateLimits' \in {rateLimits, LiveStore} /\ disk' = disk

C2_ImgchestCheck == [](C2_State) /\ [][C2_Step]_vars

\* an imgchest call is waiting because its pre-flight check was denied
C2_Witness ==
  \E p \in Procs :
    /\ req[p].provider = "imgchest"
    /\ req[p].pc = "waiting"
    /\ req[p].wait.cause = "preflight"
    /\ IsDef(rateLimits.imgchest.default)
    /\ Val(rateLimits.imgchest.default).remaining = 0

\* C3: isRateLimitExpired(entry, now) is true iff now >= entry.resetAt, and a
\* policy check made at a time now >= entry.resetAt treats the entry as
\* absent, swept or not: the checks give the same result on the store and on
\* the store without the entries whose reset time has been reached.
C3_ExpiredIsAbsent ==
  /\ \A e \in TrackedEntries :
       /\ isRateLimitExpired(e, now) <=> now >= e.resetAt
       /\ isRateLimitExpired(e, e.resetAt)
       /\ ~isRateLimitExpired(e, e.resetAt - 1)
  /\ LET live == LiveStore
     IN  \A cost \in Costs :
           /\ checkImgchestRateLimit(rateLimits, cost, now)
                = checkImgchestRateLimit(live, cost, now)
           /\ \A bucketId \in AnyBucketId :
                checkSxcuRateLimit(rateLimits, bucketId, cost, now)
                  = checkSxcuRateLimit(live, bucketId, cost, now)
  /\ \A e \in TrackedEntries :
       (now >= e.resetAt /\ Def(e) = rateLimits.imgchest.default)
         => checkImgchestRateLimit(rateLimits, 1, now).allowed
  /\ (IsDef(rateLimits.sxcu.global) /\ now >= Val(rateLimits.sxcu.global).resetAt
      /\ \A b \in BucketIds : Live(rateLimits.sxcu.buckets[b]) = Undefined)
       => \A bucketId \in AnyBucketId :
            checkSxcuRateLimit(rateLimits, bucketId, 1, now).allowed

\* an entry with remaining 0 is still in the store at the instant of its reset
C3_Witness ==
  \E e \in TrackedEntries : e.remaining = 0 /\ now = e.resetAt

\* C4: an imgchest call whose pre-flight check denies at attempt a does not
\* invoke the operation on that iteration.  For a < maxRetries it sleeps
\* min(max(policyWaitMs, backoff(a)), maxDelayMs), where backoff(a) =
\* min(baseDelayMs * 2^a, maxDelayMs) + floor(random * jitterMs), and when the
\* timer fires it is back at the pre-flight check with attempt a + 1.  For
\* a = maxRetries the call throws 'Rate limit exceeded ... Reset at' carrying
\* the entry's resetAt.
C4_Denial ==
  \A p \in Procs :
    LET r == req[p]
        cfg == r.config
        c == checkImgchestRateLimit(rateLimits, 1, now)
        backoff == Min(cfg.baseDelayMs * Pow2(r.attempt), cfg.maxDelayMs)
                     + ((req'[p].wait.rnd * cfg.jitterMs) \div 1000)
        slept == Min(Max(c.waitMs, backoff), cfg.maxDelayMs)
    IN  (r.pc = "loop" /\ r.provider = "imgchest" /\ ~c.allowed /\ req'[p] /= r)
          => /\ req'[p].ops = r.ops
             /\ req'[p].nCalls = r.nCalls
             /\ req'[p].inflight = {}
             /\ IF r.attempt < cfg.maxRetries
                THEN /\ req'[p].pc = "waiting"
                     /\ req'[p].attempt = r.attempt
                     /\ req'[p].wait.cause = "preflight"
                     /\ req'[p].wait.rnd \in RandomDraws
                     /\ req'[p].wait.cappedWaitMs = slept
                     /\ req'[p].wait.wakeAt = now + slept
                ELSE /\ r.attempt = cfg.maxRetries
                     /\ req'[p].pc = "done"
                     /\ IsDef(req'[p].ret)
                     /\ Val(req'[p].ret).kind = "throw"
                     /\ Val(req'[p].ret).message = "Rate limit exceeded. Reset at"
                     /\ Val(req'[p].ret).resetAt
                          = Def(Val(rateLimits.imgchest.default).resetAt)

C4_Rerun ==
  \A p \in Procs :
    LET r == req[p]
    IN  (r.pc = "waiting" /\ r.wait.cause = "preflight" /\ req'[p] /= r)
          => /\ req'[p].pc = "loop"
             /\ req'[p].attempt = r.attempt + 1
             /\ req'[p].ops = r.ops
             /\ req'[p].nCalls = r.nCalls
             /\ now' >= r.wait.wakeAt

C4_ImgchestPreflightDenial == [][C4_Denial /\ C4_Rerun]_vars

\* an imgchest call, denied by the pre-flight check at every attempt, waited
\* with the cap maxDelayMs in force and failed at attempt maxRetries
C4_Witness ==
  \E p \in Procs :
    /\ req[p].provider = "imgchest"
    /\ req[p].pc = "done"
    /\ req[p].attempt = req[p].config.maxRetries
    /\ req[p].nWaits = req[p].config.maxRetries
    /\ req[p].ops = 0
    /\ IsDef(req[p].ret)
    /\ Val(req[p].ret).message = "Rate limit exceeded. Reset at"

\* C5: a sxcu call whose pre-flight check denies returns the synthesized 429
\* on that iteration: no wait, no invocation of the operation, no further
\* attempt, the clock does not advance, and the store is left as it was (up
\* to the sweep of expired entries that precedes the check) and is not saved.
C5_Denial ==
  \A p \in Procs :
    LET r == req[p]
        c == checkSxcuRateLimit(rateLimits, r.bucketId, 1, now)
    IN  (r.pc = "loop" /\ r.provider = "sxcu" /\ ~c.allowed /\ req'[p] /= r)
          => /\ req'[p].pc = "done"
             /\ IsDef(req'[p].ret)
             /\ Val(req'[p].ret).kind = "return"
             /\ Val(req'[p].ret).status = 429
             /\ Val(req'[p].ret).body = "denied"
             /\ Val(req'[p].ret).headers.remaining = Def(0)
             /\ Val(req'[p].ret).headers.reset = Def(CeilDiv(Val(c.resetAt), 1000))
             /\ (Val(req'[p].ret).headers.isGlobal = Def("true")) <=> (c.reason = Def("global"))
             /\ req'[p].ops = r.ops
             /\ req'[p].nCalls = r.nCalls
             /\ req'[p].nWaits = r.nWaits
             /\ req'[p].attempt = r.attempt
             /\ req'[p].iters = r.iters + 1
             /\ now' = now
             /\ rateLimits' \in {rateLimits, LiveStore}
             /\ disk' = disk

C6_Bounded ==
  \A p \in Procs :
    LET r == req[p]
    IN  r.pc \in {"loop", "fetching", "waiting"}
          => /\ r.attempt <= r.config.maxRetries
             /\ r.iters = (IF r.pc = "loop" THEN r.attempt ELSE r.attempt + 1)
             /\ r.iters <= r.config.maxRetries + 1
             /\ r.ops <= r.iters
             /\ r.pc = "waiting" => /\ r.attempt < r.config.maxRetries
                                    /\ r.wait.cause \in {"preflight", "429", "error"}

C6_Budget ==
  \A p \in Procs :
    LET r == req[p]
    IN  /\ (r.pc = "waiting" /\ req'[p] /= r)
             => req'[p].pc = "loop" /\ req'[p].attempt = r.attempt + 1
        /\ (r.pc = "loop" /\ req'[p] /= r)
             => req'[p].pc \in {"fetching", "waiting", "done"}
        /\ (r.pc = "fetching" /\ r.attempt = r.config.maxRetries /\ req'[p] /= r)
             => req'[p].settled = r.settled + 1
        /\ (r.pc \in {"loop", "fetching", "waiting"} /\ req'[p].settled = r.settled)
             => req'[p].attempt >= r.attempt /\ req'[p].ops >= r.ops

C6_BoundedRetries == [](C6_Bounded) /\ [][C6_Budget]_vars

\* a call failed after the operation was invoked at each of its
\* maxRetries + 1 iterations
C6_Witness ==
  \E p \in Procs :
    /\ req[p].pc = "done"
    /\ req[p].ops = req[p].config.maxRetries + 1
    /\ req[p].iters = req[p].config.maxRetries + 1
    /\ IsDef(req[p].ret)
    /\ Val(req[p].ret).kind = "throw"

\* C7: after the orchestrator has processed an upstream 429 whose throttle is
\* not yet over, the store is such that a pre-flight check for the same
\* resource (imgchest; sxcu with the bucket the response names, if any) made
\* at once is denied.
C7_Processed429(r, r2) ==
  /\ r.pc = "fetching"
  /\ r2 /= r
  /\ IF r.provider = "imgchest"
     THEN \/ r2.pc = "waiting" /\ r2.wait.cause = "429"
          \/ /\ r2.pc = "done"
             /\ IsDef(r2.ret)
             /\ Val(r2.ret).message = retriesExceeded(r.provider, r.config)
     ELSE /\ r2.pc = "done"
          /\ IsDef(r2.ret)
          /\ Val(r2.ret).kind = "return"
          /\ Val(r2.ret).status = 429
          /\ LET h == Val(r2.ret).headers
             IN  /\ IsDef(h.reset) => Val(h.reset) * 1000 > now
                 /\ IsDef(h.resetAfter) => Val(h.resetAfter) > 0

C7_Step ==
  \A p \in Procs :
    C7_Processed429(req[p], req'[p])
      => IF req[p].provider = "imgchest"
         THEN ~checkImgchestRateLimit(rateLimits', 1, now').allowed
         ELSE ~checkSxcuRateLimit(rateLimits',
                                  parseRateLimitHeaders(Val(req'[p].ret).headers).bucket,
                                  1, now').allowed

C7_ThrottleRecorded == [][C7_Step]_vars

\* C8: a 429 through the collections or the files endpoint that has no
\* X-RateLimit-Global header and whose body carries code 2 sets the store's
\* global entry to remaining 0 and leaves every per-bucket entry as it was.
C8_Step ==
  \A p \in Procs :
    LET r == req[p]
        r2 == req'[p]
    IN  (/\ r.pc = "fetching"
         /\ r.handler \in {"sxcuCollections", "sxcuFiles"}
         /\ r2.pc = "done"
         /\ IsDef(r2.ret)
         /\ Val(r2.ret).kind = "return"
         /\ Val(r2.ret).status = 429
         /\ Val(r2.ret).body = "code2"
         /\ ~IsDef(Val(r2.ret).headers.isGlobal))
          => /\ IsDef(rateLimits'.sxcu.global)
             /\ Val(rateLimits'.sxcu.global).remaining = 0
             /\ rateLimits'.sxcu.buckets = rateLimits.sxcu.buckets

C8_Code2IsGlobal == [][C8_Step]_vars

\* C9: at most one upstream call of a request is in flight; the call for
\* chunk k is issued only when the k chunks before it have completed, the
\* last of them with success, and the handler moves to the next chunk only
\* from the successful return of the current one; a wait or a retry stays on
\* the same chunk.
C9_State ==
  \A p \in Procs :
    LET r == req[p]
    IN  /\ Cardinality(r.inflight) <= 1
        /\ r.pc = "fetching" => /\ r.inflight = {r.i}
                                /\ r.lastCall.chunk = r.i
                                /\ r.settled = r.i
        /\ r.pc \in {"loop", "waiting", "done"} => r.inflight = {}
        /\ r.pc \in {"loop", "waiting"} => r.settled = r.i

C9_Step ==
  \A p \in Procs :
    LET r == req[p]
        r2 == req'[p]
    IN  /\ (r.pc /= "done" /\ r2.nCalls /= r.nCalls)
             => /\ r2.nCalls = r.nCalls + 1
                /\ r.inflight = {}
                /\ r2.lastCall.chunk = r.i
                /\ r.settled = r.i
                /\ r.i > 0 => IsDef(r.finalResult)
        /\ (r.pc \in {"loop", "fetching", "waiting"} /\ r2.i /= r.i)
             => /\ r.pc = "fetching"
                /\ r2.i = r.i + 1
                /\ r2.settled = r.settled + 1
                /\ ~IsDef(r2.ret)
                /\ IsDef(r2.finalResult)
                /\ r2.inflight = {}
        /\ (r.pc = "waiting" /\ r2 /= r) => r2.i = r.i /\ r2.pc = "loop"

C9_SequentialChunks == [](C9_State) /\ [][C9_Step]_vars

\* the second chunk is in flight after the first chunk needed a retry
C9_Witness ==
  \E p \in Procs :
    /\ req[p].pc = "fetching"
    /\ req[p].i = 1
    /\ req[p].nCalls >= 3
    /\ req[p].nWaits >= 1

\* C10: a list of n >= 1 images is cut into ceil(n / 20) chunks, each but
\* the last of exactly 20 images and the last of 1 to 20, whose concatenation
\* in order is the list; 45 images give sizes 20, 20, 5.  Each upstream call
\* carries the current chunk, and an upload whose every chunk succeeded at
\* its first attempt made exactly ceil(n / 20) calls (3 for 45 images).
RECURSIVE C10_Concat(_)
C10_Concat(chunks) ==
  IF chunks = <<>> THEN <<>> ELSE Head(chunks) \o C10_Concat(Tail(chunks))

C10_Partition(images, chunks) ==
  /\ Len(chunks) = CeilDiv(Len(images), 20)
  /\ \A k \in 1..(Len(chunks) - 1) : Len(chunks[k]) = 20
  /\ Len(chunks[Len(chunks)]) \in 1..20
  /\ C10_Concat(chunks) = images

C10_AllLists ==
  /\ \A n \in 1..MaxImages :
       C10_Partition([k \in 1..n |-> k], chunkImages([k \in 1..n |-> k]))
  /\ [k \in 1..3 |-> Len(chunkImages([j \in 1..45 |-> j])[k])] = <<20, 20, 5>>

C10_Chunking ==
  /\ C10_AllLists
  /\ \A p \in Procs :
       LET r == req[p]
       IN  (IsImgchestHandler(r.handler) /\ Len(r.images) >= 1)
             => /\ C10_Partition(r.images, r.chunks)
                /\ r.pc = "fetching" => r.lastCall.images = r.chunks[r.i + 1]
                /\ (r.pc = "done" /\ IsDef(r.response) /\ Val(r.response).status = 200
                    /\ r.nWaits = 0)
                     => r.nCalls = CeilDiv(Len(r.images), 20)

\* 45 images were uploaded in 3 upstream calls, no chunk needing a retry
C10_Witness ==
  \E p \in Procs :
    /\ req[p].handler = "imgchestPost"
    /\ req[p].pc = "done"
    /\ Len(req[p].images) = 45
    /\ IsDef(req[p].response)
    /\ Val(req[p].response).status = 200
    /\ req[p].nWaits = 0
    /\ req[p].nCalls = 3
    /\ req[p].lastCall.chunk = 2
    /\ Len(req[p].lastCall.images) = 5

\* C11: when the submission of chunk k (1-based) of an imgchest upload fails,
\* by a non-success status returned or by an error thrown, the handler has
\* stopped: no call for a later chunk was made, and its response has a
\* non-200 status (the upstream status, or 500 for a thrown error), an error
\* text and the chunk field k.  A request still running holds no failed
\* result.
C11_Failed(ret) == ret.kind = "throw" \/ ~IsOk(ret.status)

C11_StopAtFailedChunk ==
  \A p \in Procs :
    LET r == req[p]
    IN  (IsImgchestHandler(r.handler) /\ IsDef(r.ret))
          => /\ r.pc = "done"
             /\ IsDef(r.response)
             /\ r.settled = r.i + 1
             /\ r.lastCall.chunk <= r.i
             /\ IF C11_Failed(Val(r.ret))
                THEN /\ Val(r.response).status /= 200
                     /\ Val(r.response).status =
                          (IF Val(r.ret).kind = "throw" THEN 500 ELSE Val(r.ret).status)
                     /\ Val(r.response).chunk = Def(r.i + 1)
                     /\ IsDef(Val(r.response).error)
                ELSE /\ r.i + 1 = Len(r.chunks)
                     /\ Val(r.response).status = 200

\* chunk 2 of 3 failed: the response names chunk 2 and chunk 3 was not sent
C11_Witness ==
  \E p \in Procs :
    /\ req[p].pc = "done"
    /\ Len(req[p].chunks) = 3
    /\ IsDef(req[p].response)
    /\ Val(req[p].response).chunk = Def(2)
    /\ Val(req[p].response).status = 500
    /\ IsDef(req[p].ret)
    /\ Val(req[p].ret).kind = "return"
    /\ req[p].lastCall.chunk = 1

\* C12: in a chunked imgchest post the first chunk goes to the create
\* endpoint and every later chunk to the append endpoint of the identifier
\* the first chunk's response returned: the second chunk's target is that
\* identifier, and from then on the target does not change from one chunk
\* to the next, whatever the append responses contain.
C12_Step ==
  \A p \in Procs :
    LET r == req[p]
        r2 == req'[p]
    IN  (r.handler = "imgchestPost" /\ r.pc = "fetching" /\ r2.i = r.i + 1)
          => /\ r.i = 0 => r.url = [path |-> "post", id |-> Undefined]
             /\ r2.url.path = "add"
             /\ r2.url.id = (IF r.i = 0 THEN DataId(Val(r2.finalResult)) ELSE r.url.id)

C12_AppendToFirstId == [][C12_Step]_vars

\* C13: in an imgchest post every upstream call for the first chunk, retries
\* included, carries all the non-image form fields of the request, and every
\* call for a later chunk carries none; each call carries the images of its
\* chunk.
C13_MetadataFirstChunkOnly ==
  \A p \in Procs :
    LET r == req[p]
    IN  (r.handler = "imgchestPost" /\ r.nCalls > 0)
          => /\ r.lastCall.entries =
                  (IF r.lastCall.chunk = 0 THEN r.otherEntries ELSE <<>>)
             /\ r.lastCall.images = r.chunks[r.lastCall.chunk + 1]
             /\ r.lastCall.images /= <<>>

\* a later chunk of a post that has metadata fields is in flight without them
C13_Witness ==
  \E p \in Procs :
    /\ req[p].handler = "imgchestPost"
    /\ req[p].pc = "fetching"
    /\ req[p].otherEntries = <<"title", "privacy">>
    /\ req[p].lastCall.chunk = 2
    /\ req[p].lastCall.entries = <<>>

\* C14: when the last chunk of an imgchest upload has succeeded (and so every
\* chunk before it), the handler's response has status 200, the result of
\* that last chunk as its body and, header by header, the rate-limit headers
\* of that chunk's upstream response (a text header with an empty value is
\* not carried); a 200 response is given in no other case.
C14_Carried(h) == IF h = Def("") THEN Undefined ELSE h

C14_SuccessResponse ==
  \A p \in Procs :
    LET r == req[p]
    IN  (IsImgchestHandler(r.handler) /\ r.pc = "done")
          => /\ (IsDef(r.ret) /\ Val(r.ret).kind = "return" /\ IsOk(Val(r.ret).status))
               => /\ r.settled = Len(r.chunks)
                  /\ r.lastCall.chunk = Len(r.chunks) - 1
                  /\ IsDef(r.response)
                  /\ Val(r.response).status = 200
                  /\ Val(r.response).error = Undefined
                  /\ Val(r.response).body = Val(r.ret).body
                  /\ \A name \in {"limit", "remaining", "reset", "resetAfter"} :
                       Val(r.response).headers[name] = Val(r.ret).headers[name]
                  /\ \A name \in {"bucket", "isGlobal"} :
                       Val(r.response).headers[name] = C14_Carried(Val(r.ret).headers[name])
             /\ (IsDef(r.response) /\ Val(r.response).status = 200)
               => /\ IsDef(r.ret)
                  /\ Val(r.ret).kind = "return"
                  /\ IsOk(Val(r.ret).status)
                  /\ r.settled = Len(r.chunks)

\* a 3-chunk upload succeeded; the last chunk's response differs in body and
\* headers from the one before it
C14_Witness ==
  \E p \in Procs :
    /\ req[p].pc = "done"
    /\ Len(req[p].chunks) = 3
    /\ IsDef(req[p].response)
    /\ Val(req[p].response).status = 200
    /\ Val(req[p].response).body = "post:idB"
    /\ Val(req[p].response).headers = NoHeaders
    /\ IsDef(rateLimits.imgchest.default)

\* C15: whenever the parsed headers of a 429 hold resetAfter (seconds, kept
\* here in microseconds), the wait computed from them by
\* calculateWaitTimeFromHeaders is resetAfter * 1000 + 100 milliseconds,
\* whatever now and the reset field are.
C15_ResetAfterWins ==
  \A p \in Procs :
    LET r == req[p]
    IN  (r.pc = "waiting" /\ r.wait.cause = "429" /\ IsDef(r.wait.headers.resetAfter))
          => r.wait.waitMs * 1000 = Val(r.wait.headers.resetAfter) + 100 * 1000

\* C16: without resetAfter, calculateWaitTimeFromHeaders(headers, now) is
\* reset * 1000 - now + 100 when reset is present and reset * 1000 > now, and
\* 60100 otherwise (no reset, or reset at or before now); with or without
\* resetAfter the result is at least 100.  Checked on a grid of header values
\* and times around the boundary reset * 1000 = now, and on every wait the
\* orchestrator computes from a 429.
C16_ResetSeconds == {0, 99, 100, 101, 130, 171}

C16_ResetAfterMicros == {0, 1, 500, 2000000, 30000000}

C16_Times == {StartTime - 1, StartTime, StartTime + 1, StartTime + Horizon}

C16_Expected(reset, t) ==
  IF IsDef(reset) /\ Val(reset) * 1000 > t THEN Val(reset) * 1000 - t + 100 ELSE 60100

C16_Grid ==
  \A reset \in {Undefined} \cup {Def(s) : s \in C16_ResetSeconds}, t \in C16_Times :
    /\ calculateWaitTimeFromHeaders(
         H(Undefined, Undefined, reset, Undefined, Undefined, Undefined), t)
         = C16_Expected(reset, t)
    /\ C16_Expected(reset, t) >= 100
    /\ \A ra \in C16_ResetAfterMicros :
         calculateWaitTimeFromHeaders(
           H(Undefined, Undefined, reset, Def(ra), Undefined, Undefined), t) >= 100

C16_WaitWithoutResetAfter ==
  /\ C16_Grid
  /\ \A p \in Procs :
       LET r == req[p]
       IN  (r.pc = "waiting" /\ r.wait.cause = "429")
             => /\ r.wait.waitMs >= 100
                /\ ~IsDef(r.wait.headers.resetAfter)
                     => r.wait.waitMs = C16_Expected(r.wait.headers.reset, now)

\* the wait after a 429 was computed from a reset timestamp still in the future
C16_Witness ==
  \E p \in Procs :
    /\ req[p].pc = "waiting"
    /\ req[p].wait.cause = "429"
    /\ req[p].wait.headers.reset = Def(130)
    /\ now < 130000
    /\ req[p].wait.waitMs = 130000 - now + 100

\* C17: for every attempt a >= 0, every retry config and every jitter draw
\* j in [0, jitterMs), calculateExponentialBackoff returns
\* floor(min(baseDelayMs * 2^a, maxDelayMs) + j); at attempt 0 the result lies
\* in [baseDelayMs, baseDelayMs + jitterMs] and at every attempt it is at most
\* maxDelayMs + jitterMs.  Checked on the default config, the custom config of
\* the tests and a config whose base delay equals its cap, attempts 0..20, and
\* on every backoff wait of the orchestrator.
C17_Configs ==
  {DEFAULT_RETRY_CONFIG, CustomConfig,
   [maxRetries |-> 3, baseDelayMs |-> 2000, maxDelayMs |-> 2000, jitterMs |-> 250]}

C17_Attempts == 0..20

\* Math.random() draws in thousandths
C17_Draws == {0, 1, 2, 500, 998, 999}

\* floor(j) for the draw rnd: the largest whole number of milliseconds n with
\* n * 1000 <= rnd * jitterMs
C17_FloorJitter(config, rnd) ==
  CHOOSE n \in 0..config.jitterMs :
    n * 1000 <= rnd * config.jitterMs /\ rnd * config.jitterMs < (n + 1) * 1000

C17_Capped(a, config) ==
  IF config.baseDelayMs * 2^a < config.maxDelayMs
  THEN config.baseDelayMs * 2^a ELSE config.maxDelayMs

C17_Bounds(a, config, delay) ==
  /\ delay >= C17_Capped(a, config)
  /\ delay <= C17_Capped(a, config) + config.jitterMs
  /\ a = 0 => /\ delay >= config.baseDelayMs
              /\ delay <= config.baseDelayMs + config.jitterMs
  /\ delay <= config.maxDelayMs + config.jitterMs

C17_Grid ==
  /\ \A a \in C17_Attempts, config \in C17_Configs, rnd \in C17_Draws :
       /\ calculateExponentialBackoff(a, config, rnd)
            = C17_Capped(a, config) + C17_FloorJitter(config, rnd)
       /\ C17_Bounds(a, config, calculateExponentialBackoff(a, config, rnd))
  /\ calculateExponentialBackoff(3, DEFAULT_RETRY_CONFIG, 999) = 8499
  /\ calculateExponentialBackoff(20, DEFAULT_RETRY_CONFIG, 999) = 120499
  /\ calculateExponentialBackoff(0, CustomConfig, 0) = 500

C18_Draws == {0, 1, 250, 500, 750, 998, 999}

C18_Increasing(a, rndLow, rndHigh) ==
  calculateExponentialBackoff(a + 1, DEFAULT_RETRY_CONFIG, rndHigh)
    > calculateExponentialBackoff(a, DEFAULT_RETRY_CONFIG, rndLow)

C18_Grid ==
  \A a \in {0, 1, 2}, rndLow \in C18_Draws, rndHigh \in C18_Draws :
    C18_Increasing(a, rndLow, rndHigh)

C18_StrictlyIncreasing ==
  /\ C18_Grid
  /\ \A p \in Procs :
       LET r == req[p]
       IN  (r.pc = "waiting" /\ r.config = DEFAULT_RETRY_CONFIG)
             => \A rnd \in C18_Draws :
                  /\ r.attempt \in {1, 2, 3} => C18_Increasing(r.attempt - 1, rnd, r.wait.rnd)
                  /\ r.attempt \in {0, 1, 2} => C18_Increasing(r.attempt, r.wait.rnd, rnd)

\* a second-attempt wait under the default config with the smallest jitter
\* draw (2000 ms) still exceeds a first-attempt delay with the largest (1499 ms)
C18_Witness ==
  \E p \in Procs :
    /\ req[p].pc = "waiting"
    /\ req[p].config = DEFAULT_RETRY_CONFIG
    /\ req[p].attempt = 1
    /\ req[p].wait.rnd = 0
    /\ calculateExponentialBackoff(1, req[p].config, req[p].wait.rnd) = 2000
    /\ calculateExponentialBackoff(0, req[p].config, 999) = 1499

\* C19: every tracked entry of the store (imgchest default, sxcu global, each
\* sxcu bucket) has remaining <= limit and resetAt > windowStart, whatever
\* limit / remaining / reset / resetAfter values the upstream response that
\* created or overwrote it carried.
C19_WellFormed(entry) ==
  IsDef(entry) => /\ Val(entry).remaining <= Val(entry).limit
                  /\ Val(entry).resetAt > Val(entry).windowStart

C19_EntriesWellFormed ==
  /\ C19_WellFormed(rateLimits.imgchest.default)
  /\ C19_WellFormed(rateLimits.sxcu.global)
  /\ \A b \in BucketIds : C19_WellFormed(rateLimits.sxcu.buckets[b])

\* C20: loadRateLimits() never raises, and when the persisted data is missing
\* or corrupt (text that does not parse, or an object that is not of the
\* AllRateLimits shape) it leaves the store in the default state: no imgchest
\* entry, no sxcu global entry, no sxcu bucket entry, so that every check made
\* next returns allowed = true, waitMs = 0.  Before the first request the
\* store is as loadRateLimits() left it and the file as it found it.
C20_Corrupt(file) == ~IsDef(file) \/ ~IsAllRateLimits(Val(file))

C20_LoadDefaultsOnCorrupt ==
  (served = 0 /\ C20_Corrupt(disk))
    => /\ rateLimits = EmptyRateLimits
       /\ \A cost \in Costs : checkImgchestRateLimit(rateLimits, cost, now) = Allowed
       /\ \A b \in AnyBucketId, cost \in Costs :
            checkSxcuRateLimit(rateLimits, b, cost, now) = Allowed

\* C22: the 429 made on a local sxcu denial carries X-RateLimit-Remaining 0,
\* X-RateLimit-Reset equal to the denying entry's resetAt in epoch seconds
\* rounded up, an X-RateLimit-Limit header, X-RateLimit-Bucket naming the
\* denying scope (the global bucket identifier, or the bucket asked for), and
\* X-RateLimit-Global: true exactly when the global entry denied; a sxcu
\* handler answers with status 429 and these headers.
C22_Expected(entry, scope, global, h) ==
  /\ h.remaining = Def(0)
  /\ h.reset = Def((entry.resetAt + 999) \div 1000)
  /\ IsDef(h.limit)
  /\ h.bucket = Def(scope)
  /\ h.isGlobal = IF global THEN Def("true") ELSE Undefined
  /\ ~IsDef(h.resetAfter)

C22_Step ==
  \A p \in Procs :
    LET r == req[p]
        r2 == req'[p]
        g == rateLimits'.sxcu.global
        globalDenies == IsDef(g) /\ now < Val(g).resetAt /\ Val(g).remaining < 1
        entry == IF globalDenies THEN Val(g) ELSE Val(rateLimits'.sxcu.buckets[Val(r.bucketId)])
        scope == IF globalDenies THEN SXCU_GLOBAL_BUCKET ELSE Val(r.bucketId)
    IN  (r.pc = "loop" /\ r.provider = "sxcu" /\ r2.pc = "done" /\ IsDef(r2.ret)
         /\ Val(r2.ret).body = "denied")
          => /\ Val(r2.ret).status = 429
             /\ C22_Expected(entry, scope, globalDenies, Val(r2.ret).headers)
             /\ r.handler \in {"sxcuCollections", "sxcuFiles"}
                  => /\ IsDef(r2.response)
                     /\ Val(r2.response).status = 429
                     /\ C22_Expected(entry, scope, globalDenies, Val(r2.response).headers)

C22_DenialHeaders == [][C22_Step]_vars

\* a sxcu handler answered 429 on a denial by the global entry, whose reset
\* time is not a whole second
C22_Witness ==
  \E p \in Procs :
    /\ req[p].pc = "done"
    /\ req[p].handler = "sxcuFiles"
    /\ IsDef(req[p].response)
    /\ Val(req[p].response).status = 429
    /\ Val(req[p].response).body = "denied"
    /\ Val(req[p].response).headers.isGlobal = Def("true")
    /\ Val(req[p].response).headers.bucket = Def(SXCU_GLOBAL_BUCKET)
    /\ IsDef(rateLimits.sxcu.global)
    /\ Val(rateLimits.sxcu.global).resetAt % 1000 /= 0
    /\ Val(req[p].response).headers.reset
         = Def(Val(rateLimits.sxcu.global).resetAt \div 1000 + 1)

\* a caller of executeWithRateLimitRetry was denied by the entry of its bucket
C22_WitnessBucket ==
  \E p \in Procs :
    /\ req[p].pc = "done"
    /\ req[p].handler = "execute"
    /\ IsDef(req[p].ret)
    /\ Val(req[p].ret).body = "denied"
    /\ Val(req[p].ret).headers.bucket = Def("b1")
    /\ ~IsDef(Val(req[p].ret).headers.isGlobal)

\* C24: an imgchest post or add request without a credential is terminal:
\* the handler answers 401 in the step that starts it, no upstream call is
\* made, no retry loop is entered (no iteration, no wait), and the store the
\* server dispatched the request with (swept of expired entries by fetch) and
\* the rate-limit file are left as they are.
C24_Step ==
  \A p \in Procs :
    LET r2 == req'[p]
    IN  (req[p].pc \in {"idle", "done"} /\ served' = served + 1
           /\ IsImgchestHandler(r2.handler) /\ ~r2.hasToken)
          => /\ r2.pc = "done"
             /\ IsDef(r2.response) /\ Val(r2.response).status = 401
             /\ r2.ops = 0 /\ r2.nCalls = 0 /\ r2.inflight = {}
             /\ r2.iters = 0 /\ r2.nWaits = 0 /\ r2.wait = NoWait
             /\ rateLimits' = cleanupExpiredEntries(rateLimits, now)
             /\ disk' = disk

C24_NoCredentialIsTerminal == [][C24_Step]_vars

C24_Witness ==
  \E p \in Procs :
    /\ req[p].handler = "imgchestAdd" /\ ~req[p].hasToken
    /\ req[p].pc = "done" /\ IsDef(req[p].response)
    /\ Val(req[p].response).status = 401
    /\ req[p].ops = 0
    /\ IsDef(rateLimits.imgchest.default)
    /\ Val(rateLimits.imgchest.default).remaining > 0

\* C26: when a sxcu upstream 429 is interpreted, a flag supplied by the
\* operation decides the scope whatever its value; without a flag the
\* X-RateLimit-Global header decides when present; the body is inspected only
\* when neither is available.
C26_ScopePrecedence ==
  \A p \in Procs :
    IsDef(req[p].interp) =>
      LET i == Val(req[p].interp)
      IN  /\ IsDef(i.opIsGlobalError)
               => /\ Truthy(i.isGlobalError) = Val(i.opIsGlobalError)
                  /\ ~i.inspected
          /\ (~IsDef(i.opIsGlobalError) /\ IsDef(i.headerIsGlobal))
               => /\ Truthy(i.isGlobalError) = Val(i.headerIsGlobal)
                  /\ ~i.inspected
          /\ i.inspected => (~IsDef(i.opIsGlobalError) /\ ~IsDef(i.headerIsGlobal))

\* C27 as stated: on a sxcu upstream 429 the store is updated and the 429 is
\* returned at once, and every sxcu call that got a response from upstream
\* has invoked its operation exactly once.
C27_ExactlyOnce ==
  \A p \in Procs :
    LET r == req[p]
    IN  (r.provider = "sxcu" /\ r.pc = "done" /\ IsDef(r.ret)
           /\ Val(r.ret).kind = "return" /\ Val(r.ret).body /= "denied")
          => r.ops = 1

\* C27 amended: on a sxcu upstream 429 the store is updated by
\* updateSxcuRateLimit and that 429 is returned unchanged in the same step,
\* with no wait and no further invocation; the operation was invoked once
\* for the response and once more for each attempt before it that threw.
C27_Step ==
  \A p \in Procs :
    LET r == req[p]
        r2 == req'[p]
    IN  /\ (r.pc = "fetching" /\ r.provider = "sxcu" /\ r2 /= r
              /\ IsDef(r2.ret) /\ Val(r2.ret).kind = "return" /\ Val(r2.ret).status = 429)
             => /\ r2.pc = "done"
                /\ r2.ops = r.ops /\ r2.nCalls = r.nCalls /\ r2.nWaits = r.nWaits
                /\ r2.wait = NoWait
                /\ r2.ops = r2.attempt + 1
                /\ Val(r2.ret).body /= "denied"
                /\ IsDef(r2.interp)
                /\ rateLimits' = updateSxcuRateLimit(rateLimits,
                                    parseRateLimitHeaders(Val(r2.ret).headers),
                                    Truthy(Val(r2.interp).isGlobalError), now)
                /\ IsDef(rateLimits'.sxcu.global)
                /\ Val(rateLimits'.sxcu.global).lastUpdated = now
                /\ disk' = Def(rateLimits')
                /\ r.handler \in {"sxcuCollections", "sxcuFiles"}
                     => /\ IsDef(r2.response)
                        /\ Val(r2.response).status = 429
                        /\ Val(r2.response).body = Val(r2.ret).body
                        /\ Val(r2.response).headers = copyRateLimitHeaders(Val(r2.ret).headers)
        /\ (r.pc = "fetching" /\ r.provider = "sxcu" /\ r2.pc = "waiting")
             => (r2.wait.cause = "error" /\ ~IsDef(r2.ret))
        /\ (r.pc = "fetching" /\ r.provider = "sxcu" /\ r2 /= r)
             => r2.pc \in {"done", "waiting"}

C27_Sxcu429Returned == [][C27_Step]_vars

C27_Witness ==
  \E p \in Procs :
    LET r == req[p]
    IN  /\ r.handler = "sxcuFiles" /\ r.pc = "done"
        /\ IsDef(r.ret) /\ Val(r.ret).status = 429 /\ Val(r.ret).body = "code2"
        /\ r.ops = 2 /\ r.nWaits = 1
        /\ IsDef(r.response) /\ Val(r.response).status = 429
        /\ IsDef(rateLimits.sxcu.global) /\ Val(rateLimits.sxcu.global).remaining = 0

\* C28: when the operation returns a response whose status is not 429,
\* executeWithRateLimitRetry returns it in the same step: the operation is not
\* invoked again for that call, no wait is started, and the store is what the
\* operation left (for an imgchest handler its single updateImgchestRateLimit,
\* for the other operations the store as it was).
C28_Step ==
  \A p \in Procs :
    LET r == req[p]
        r2 == req'[p]
        ret == Val(r2.ret)
    IN  /\ (r.pc = "fetching" /\ r2 /= r /\ IsDef(r2.ret)
              /\ ret.kind = "return" /\ ret.status /= 429)
             => /\ r2.pc \in {"done", "loop"}
                /\ r2.ops = r.ops /\ r2.nCalls = r.nCalls /\ r2.nWaits = r.nWaits
                /\ r2.wait = NoWait /\ r2.inflight = {}
                /\ r2.settled = r.settled + 1
                /\ r2.pc = "loop" => (r2.i = r.i + 1 /\ r2.attempt = 0 /\ IsOk(ret.status))
                /\ rateLimits' = IF IsImgchestHandler(r.handler)
                                 THEN updateImgchestRateLimit(rateLimits,
                                        parseRateLimitHeaders(ret.headers), now)
                                 ELSE rateLimits
                /\ IsImgchestHandler(r.handler) \/ disk' = disk
        /\ (r.pc = "fetching" /\ r2.pc = "waiting")
             => /\ ~IsDef(r2.ret)
                /\ r2.wait.cause \in {"error", "429"}
                /\ r2.wait.cause = "429" => r.provider = "imgchest"

C28_NonThrottleReturned == [][C28_Step]_vars

C28_Witness ==
  \E p \in Procs :
    LET r == req[p]
    IN  /\ r.handler = "imgchestPost" /\ r.pc = "done"
        /\ IsDef(r.ret) /\ Val(r.ret).kind = "return" /\ Val(r.ret).status = 500
        /\ r.ops = 1 /\ r.nWaits = 0
        /\ IsDef(r.response) /\ Val(r.response).status = 500
        /\ IsDef(rateLimits.imgchest.default)
        /\ Val(rateLimits.imgchest.default).remaining = 0
        /\ Val(rateLimits.imgchest.default).limit = 60

C28_WitnessSuccess ==
  \E p \in Procs :
    LET r == req[p]
    IN  /\ r.handler = "execute" /\ r.provider = "sxcu" /\ r.pc = "done"
        /\ IsDef(r.ret) /\ Val(r.ret).kind = "return" /\ Val(r.ret).status = 200
        /\ r.ops = 1
        /\ IsDef(rateLimits.sxcu.global)
        /\ Val(rateLimits.sxcu.global).remaining =
             SXCU_RATE_LIMIT.globalRequestsPerMinute - 1

\* C29: an imgchest 429 received at attempt = maxRetries makes the call fail
\* with 'Rate limit exceeded for imgchest after <maxRetries> retries', with no
\* further wait or invocation; a 429 received at an earlier attempt leads to a
\* wait computed from the response headers, after which the loop is back at
\* the pre-flight check with attempt + 1.
C29_Step ==
  \A p \in Procs :
    LET r == req[p]
        r2 == req'[p]
        exceeded == /\ r2.pc = "done" /\ IsDef(r2.ret)
                    /\ Val(r2.ret).kind = "throw"
                    /\ Val(r2.ret).message \notin {"network", "html", "parse"}
    IN  /\ (r.pc = "fetching" /\ r.provider = "imgchest" /\ exceeded)
             => /\ r.attempt = r.config.maxRetries
                /\ Val(r2.ret).message = retriesExceeded("imgchest", r.config)
                /\ r2.ops = r.ops /\ r2.nCalls = r.nCalls /\ r2.nWaits = r.nWaits
                /\ r2.wait = NoWait
        /\ (r.pc = "fetching" /\ r.provider = "imgchest" /\ r.attempt = r.config.maxRetries
              /\ r2 /= r)
             => r2.pc /= "waiting"
        /\ (r.pc = "fetching" /\ r.provider = "imgchest" /\ r2 /= r /\ IsDef(r2.ret)
              /\ Val(r2.ret).kind = "return")
             => Val(r2.ret).status /= 429
        /\ (r.pc = "fetching" /\ r2.pc = "waiting" /\ r2.wait.cause = "429")
             => /\ r.provider = "imgchest"
                /\ r.attempt < r.config.maxRetries
                /\ r2.attempt = r.attempt /\ r2.ops = r.ops
                /\ r2.nWaits = r.nWaits + 1
                /\ r2.wait.waitMs = calculateWaitTimeFromHeaders(r2.wait.headers, now)
                /\ r2.wait.cappedWaitMs =
                     waitWithBackoff(r2.wait.waitMs, r.attempt, r.config, r2.wait.rnd)
                /\ r2.wait.wakeAt = now + r2.wait.cappedWaitMs
        /\ (r.pc = "waiting" /\ r.wait.cause = "429" /\ r2 /= r)
             => /\ r2.pc = "loop"
                /\ r2.attempt = r.attempt + 1
                /\ r2.ops = r.ops /\ r2.nCalls = r.nCalls
                /\ now' >= r.wait.wakeAt

C29_ThrottledRetry == [][C29_Step]_vars

C29_Witness ==
  \E p \in Procs :
    LET r == req[p]
    IN  /\ r.handler = "execute" /\ r.provider = "imgchest" /\ r.pc = "done"
        /\ IsDef(r.ret) /\ Val(r.ret).kind = "throw"
        /\ Val(r.ret).message = "Rate limit exceeded for imgchest after 3 retries"
        /\ r.attempt = 3 /\ r.ops = 4 /\ r.nWaits = 3

C29_WitnessWait ==
  \E p \in Procs :
    LET r == req[p]
    IN  /\ IsImgchestHandler(r.handler) /\ r.pc = "loop"
        /\ r.attempt = 1 /\ r.ops = 1 /\ r.nWaits = 1
        /\ now >= StartTime + 2000

\* C30: an error thrown by the operation at an attempt below maxRetries is
\* caught and followed by a wait and a retry at attempt + 1; thrown at attempt
\* = maxRetries it ends the call as that same error, and the imgchest handlers
\* answer 500 with the error's message and the number of the chunk.
C30_OperationErrors == {"network", "html", "parse"}

C30_Step ==
  \A p \in Procs :
    LET r == req[p]
        r2 == req'[p]
        thrown == /\ r2.pc = "done" /\ IsDef(r2.ret)
                  /\ Val(r2.ret).kind = "throw"
                  /\ Val(r2.ret).message \in C30_OperationErrors
    IN  /\ (r.pc = "fetching" /\ r2.pc = "waiting" /\ r2.wait.cause = "error")
             => /\ r.attempt < r.config.maxRetries
                /\ r2.attempt = r.attempt /\ r2.i = r.i
                /\ r2.wait.waitMs = 1000
                /\ r2.nWaits = r.nWaits + 1
                /\ ~IsDef(r2.response)
        /\ (r.pc = "waiting" /\ r.wait.cause = "error" /\ r2 /= r)
             => /\ r2.pc = "loop"
                /\ r2.attempt = r.attempt + 1
                /\ r2.i = r.i /\ r2.ops = r.ops
        /\ (r.pc = "fetching" /\ thrown)
             => /\ r.attempt = r.config.maxRetries
                /\ r2.ops = r.ops /\ r2.nWaits = r.nWaits
                /\ r.handler = "execute" => Val(r2.ret).message = "network"
                /\ IsImgchestHandler(r.handler)
                     => /\ IsDef(r2.response)
                        /\ Val(r2.response).status = 500
                        /\ Val(r2.response).error = Def(Val(r2.ret).message)
                        /\ Val(r2.response).chunk = Def(r.i + 1)
        /\ (IsImgchestHandler(r2.handler) /\ r2.pc = "done" /\ IsDef(r2.ret)
              /\ Val(r2.ret).kind = "throw")
             => (IsDef(r2.response) /\ Val(r2.response).status = 500)

C30_ThrownErrors == [][C30_Step]_vars

C30_Witness ==
  \E p \in Procs :
    LET r == req[p]
    IN  /\ r.handler = "imgchestPost" /\ r.pc = "done"
        /\ IsDef(r.ret) /\ Val(r.ret).kind = "throw" /\ Val(r.ret).message = "html"
        /\ r.attempt = DEFAULT_RETRY_CONFIG.maxRetries
        /\ r.ops = DEFAULT_RETRY_CONFIG.maxRetries + 1
        /\ r.i = 1
        /\ IsDef(r.response) /\ Val(r.response).status = 500
        /\ Val(r.response).chunk = Def(2)

\* ------------------------------------------------------------------------
\* handleCatboxUpload
\* ------------------------------------------------------------------------
CatboxNoWait == [waitMs |-> 0, rnd |-> 0, wakeAt |-> 0]

\* locals of handleCatboxUpload; form is what req.formData() will give
\* (Undefined: the body is not form data), status the status of the response
\* whose text is being read
CatboxIdle ==
  [pc |-> "idle", form |-> Undefined, attempt |-> 0, nCalls |-> 0, nWaits |-> 0,
   status |-> Undefined, lastError |-> Undefined, cause |-> "none",
   wait |-> CatboxNoWait, response |-> Undefined, thrown |-> Undefined]

validReqTypes == {"fileupload", "urlupload", "createalbum"}

\* request bodies: form data with a reqtype (valid, unknown, missing: "")
\* or a body that is not form data
CatboxRequests == {Def("fileupload"), Def("createalbum"), Def("unknown"), Def(""), Undefined}

\* upstream statuses; Undefined: fetch rejects
CatboxStatuses == {200, 201, 429, 500}

CatboxFetchOutcomes == {Undefined} \cup {Def(s) : s \in CatboxStatuses}

\* new Response(...) of handleCatboxUpload
CatboxResponse(status, body, error) == [status |-> status, body |-> body, error |-> error]

\* an entry left by an imgchest upload 40 s before the server's clock
\* reads StartTime
RecentEntry ==
  [limit |-> IMGCHEST_RATE_LIMIT.requestsPerMinute,
   remaining |-> IMGCHEST_RATE_LIMIT.requestsPerMinute - 1,
   resetAt |-> StartTime + 2 * Quantum,
   windowStart |-> StartTime + 2 * Quantum - IMGCHEST_RATE_LIMIT.windowMs,
   lastUpdated |-> StartTime + 2 * Quantum - IMGCHEST_RATE_LIMIT.windowMs]

\* the store of a server that has served nothing, that has served an
\* imgchest upload, or that loaded a file with exhausted imgchest and catbox
\* entries
CatboxStores ==
  {EmptyRateLimits,
   [EmptyRateLimits EXCEPT !.imgchest.default = Def(RecentEntry)],
   [EmptyRateLimits EXCEPT !.imgchest.default = Def(StoredEntry),
                           !.catbox.default = Def(StoredEntry)]}

InitCatbox ==
  /\ now = StartTime
  /\ rateLimits \in CatboxStores
  /\ disk = IF rateLimits = EmptyRateLimits THEN Undefined ELSE Def(rateLimits)
  /\ impl = "bun"
  /\ req = [p \in Procs |-> CatboxIdle]
  /\ served = 0
  /\ uploader = NewUploader

\* await new Promise(resolve => setTimeout(resolve, waitMs)) with
\* waitMs = calculateExponentialBackoff(attempt)
CatboxSleep(r, cause, rnd) ==
  LET waitMs == calculateExponentialBackoff(r.attempt, DEFAULT_RETRY_CONFIG, rnd)
  IN  [r EXCEPT !.pc = "waiting", !.nWaits = @ + 1, !.cause = cause,
                !.wait = [waitMs |-> waitMs, rnd |-> rnd, wakeAt |-> now + waitMs]]

\* the catch block, and the return after the loop when it was the last attempt
CatboxCatch(r, message, rnd) ==
  LET r1 == [r EXCEPT !.lastError = Def(message), !.status = Undefined]
  IN  IF r.attempt < DEFAULT_RETRY_CONFIG.maxRetries
      THEN CatboxSleep(r1, "error", rnd)
      ELSE [r1 EXCEPT !.pc = "done", !.cause = "error",
                      !.response = Def(CatboxResponse(500, "json", r1.lastError))]

\* fetch(req) of the server: cleanupExpiredEntries, then handleCatboxUpload up
\* to await req.formData()
CatboxStart(p, q) ==
  /\ req[p].pc \in {"idle", "done"}
  /\ served < MaxRequests
  /\ served' = served + 1
  /\ rateLimits' = cleanupExpiredEntries(rateLimits, now)
  /\ req' = [req EXCEPT ![p] = [CatboxIdle EXCEPT !.pc = "form", !.form = q]]
  /\ UNCHANGED <<now, disk, impl, uploader>>

\* req.formData() settles: the reqtype is validated and the first upstream
\* call is issued
CatboxForm(p) ==
  LET r == req[p]
  IN  /\ r.pc = "form"
      /\ req' = [req EXCEPT ![p] =
           IF ~IsDef(r.form)
           THEN [r EXCEPT !.pc = "done", !.thrown = Def("TypeError")]
           ELSE IF Val(r.form) \notin validReqTypes
           THEN [r EXCEPT !.pc = "done",
                          !.response = Def(CatboxResponse(400, "json",
                                                          Def("Unknown request type")))]
           ELSE [r EXCEPT !.pc = "fetching", !.nCalls = 1]]
      /\ UNCHANGED <<now, rateLimits, disk, impl, served, uploader>>

\* await fetch(...) settles with a response of status Val(o), or rejects
CatboxFetched(p, o, rnd) ==
  LET r == req[p]
  IN  /\ r.pc = "fetching"
      /\ req' = [req EXCEPT ![p] =
           IF IsDef(o) THEN [r EXCEPT !.pc = "text", !.status = o]
           ELSE CatboxCatch(r, "network", rnd)]
      /\ UNCHANGED <<now, rateLimits, disk, impl, served, uploader>>

\* variant: a 5xx response is retried as a 429 is
CatboxText_RetriesServerErrors(p, resolves, rnd) ==
  LET r == req[p]
      status == Val(r.status)
  IN  /\ r.pc = "text"
      /\ req' = [req EXCEPT ![p] =
           IF ~resolves THEN CatboxCatch(r, "body", rnd)
           ELSE IF IsOk(status)
           THEN [r EXCEPT !.pc = "done", !.cause = "response",
                          !.response = Def(CatboxResponse(200, "text", Undefined))]
           ELSE IF status \in {429, 500} /\ r.attempt < DEFAULT_RETRY_CONFIG.maxRetries
           THEN CatboxSleep(r, "429", rnd)
           ELSE [r EXCEPT !.pc = "done", !.cause = "response",
                          !.response = Def(CatboxResponse(status, "text", Undefined))]]
      /\ UNCHANGED <<now, rateLimits, disk, impl, served, uploader>>

\* await response.text() settles; the rest of the loop body
CatboxText(p, resolves, rnd) ==
  LET r == req[p]
      status == Val(r.status)
  IN  /\ r.pc = "text"
      /\ req' = [req EXCEPT ![p] =
           IF ~resolves THEN CatboxCatch(r, "body", rnd)
           ELSE IF IsOk(status)
           THEN [r EXCEPT !.pc = "done", !.cause = "response",
                          !.response = Def(CatboxResponse(200, "text", Undefined))]
           ELSE IF status = 429 /\ r.attempt < DEFAULT_RETRY_CONFIG.maxRetries
           THEN CatboxSleep(r, "429", rnd)
           ELSE [r EXCEPT !.pc = "done", !.cause = "response",
                          !.response = Def(CatboxResponse(status, "text", Undefined))]]
      /\ UNCHANGED <<now, rateLimits, disk, impl, served, uploader>>

\* the timer fires: continue, attempt++, and the next upstream call is issued
CatboxWaitDone(p) ==
  LET r == req[p]
  IN  /\ r.pc = "waiting"
      /\ FireTime(r.wait.wakeAt) <= StartTime + Horizon
      /\ now' = FireTime(r.wait.wakeAt)
      /\ req' = [req EXCEPT ![p] =
           [r EXCEPT !.pc = "fetching", !.attempt = @ + 1, !.nCalls = @ + 1,
                     !.wait = CatboxNoWait]]
      /\ UNCHANGED <<rateLimits, disk, impl, served, uploader>>

NextCatbox ==
  \/ \E p \in Procs, q \in CatboxRequests : CatboxStart(p, q)
  \/ \E p \in Procs : CatboxForm(p)
  \/ \E p \in Procs, o \in CatboxFetchOutcomes, rnd \in RandomDraws : CatboxFetched(p, o, rnd)
  \/ \E p \in Procs, resolves \in BOOLEAN, rnd \in RandomDraws : CatboxText(p, resolves, rnd)
  \/ \E p \in Procs : CatboxWaitDone(p)

SpecCatbox == InitCatbox /\ [][NextCatbox]_vars

\* C23 as stated: handleCatboxUpload makes at most maxRetries + 1 upstream
\* calls, never ends without a response, and returns an upstream status
\* other than 429 after a single call.
C23_AsStated ==
  \A p \in Procs :
    LET r == req[p]
    IN  /\ r.nCalls <= DEFAULT_RETRY_CONFIG.maxRetries + 1
        /\ r.pc = "done" => IsDef(r.response)
        /\ (r.pc = "done" /\ r.cause = "response" /\ IsDef(r.response)
              /\ Val(r.response).status /= 429)
             => r.nCalls = 1

\* C23 amended: at most maxRetries + 1 upstream calls; once the form data
\* has been read the handler ends with a response (a body that is not form
\* data makes it throw); a wait and a further call follow only an upstream
\* 429 or a thrown error below the last attempt; any other response is
\* returned in the step that reads it (a success as 200, another status as
\* it is), a 429 at the last attempt is returned as 429, a throw at the last
\* attempt gives 500; no step of the handler changes the store or the file.
C23_Step ==
  \A p \in Procs :
    LET r == req[p]
        r2 == req'[p]
        maxRetries == DEFAULT_RETRY_CONFIG.maxRetries
    IN  /\ r2.nCalls <= maxRetries + 1
        /\ r2.nCalls /= r.nCalls
             => \/ r.pc \in {"idle", "done"} /\ r2.nCalls = 0
                \/ r.pc \in {"form", "waiting"} /\ r2.nCalls = r.nCalls + 1
        /\ (r.pc /= "waiting" /\ r2.pc = "waiting")
             => /\ r.attempt < maxRetries
                /\ r2.attempt = r.attempt
                /\ \/ r2.cause = "429" /\ r.pc = "text" /\ r.status = Def(429)
                   \/ r2.cause = "error" /\ r.pc \in {"fetching", "text"}
                        /\ r2.lastError \in {Def("network"), Def("body")}
                /\ r2.wait.waitMs =
                     calculateExponentialBackoff(r.attempt, DEFAULT_RETRY_CONFIG, r2.wait.rnd)
        /\ (r.pc = "waiting" /\ r2 /= r)
             => (r2.pc = "fetching" /\ r2.attempt = r.attempt + 1 /\ now' >= r.wait.wakeAt)
        /\ (r.pc = "text" /\ r2.pc = "done" /\ r2.cause = "response")
             => /\ IsDef(r2.response)
                /\ Val(r2.response).status =
                     IF IsOk(Val(r.status)) THEN 200 ELSE Val(r.status)
                /\ Val(r.status) = 429 => r.attempt = maxRetries
        /\ (r.pc = "text" /\ r2 /= r /\ r.status /= Def(429))
             => (r2.pc = "done" \/ r2.cause = "error")
        /\ (r.pc \in {"fetching", "text"} /\ r2.pc = "done" /\ r2.cause = "error")
             => /\ r.attempt = maxRetries
                /\ IsDef(r2.response)
                /\ Val(r2.response).status = 500
                /\ Val(r2.response).error = r2.lastError
        /\ (r.pc = "form" /\ r2 /= r)
             => IF ~IsDef(r.form)
                THEN r2.pc = "done" /\ ~IsDef(r2.response) /\ IsDef(r2.thrown)
                ELSE IF Val(r.form) \in validReqTypes
                THEN r2.pc = "fetching"
                ELSE r2.pc = "done" /\ IsDef(r2.response) /\ Val(r2.response).status = 400
        /\ (r.pc /= "form" /\ r2.pc = "done") => IsDef(r2.response)
        /\ disk' = disk
        /\ rateLimits' = IF r.pc \in {"idle", "done"} /\ r2.pc = "form"
                         THEN cleanupExpiredEntries(rateLimits, now)
                         ELSE rateLimits

C23_CatboxBoundedRetry == [][C23_Step]_vars

C23_Witness ==
  \E p \in Procs :
    LET r == req[p]
    IN  /\ r.pc = "done" /\ r.cause = "response"
        /\ IsDef(r.response) /\ Val(r.response).status = 429
        /\ r.attempt = DEFAULT_RETRY_CONFIG.maxRetries
        /\ r.nCalls = DEFAULT_RETRY_CONFIG.maxRetries + 1
        /\ r.nWaits = DEFAULT_RETRY_CONFIG.maxRetries
        /\ r.lastError = Def("body")
        /\ rateLimits.catbox.default = Def(StoredEntry)
        /\ disk = Def(rateLimits)

C23_WitnessThrow ==
  \E p \in Procs :
    LET r == req[p]
    IN  /\ r.pc = "done" /\ r.cause = "error"
        /\ IsDef(r.response) /\ Val(r.response).status = 500
        /\ Val(r.response).error = Def("network")
        /\ r.nCalls = DEFAULT_RETRY_CONFIG.maxRetries + 1

C23_WitnessSweep ==
  \E p \in Procs :
    LET r == req[p]
    IN  /\ r.pc = "done" /\ r.cause = "response"
        /\ IsDef(r.response) /\ Val(r.response).status = 200
        /\ r.status = Def(201)
        /\ served = 2 /\ ~IsDef(rateLimits.imgchest.default)
        /\ IsDef(disk) /\ Val(disk).imgchest.default = Def(RecentEntry)

\* ------------------------------------------------------------------------
\* The client page: ImageUploader.addFiles / removeFile
\* ------------------------------------------------------------------------
\* A string is the sequence of its characters.
MaxBatch == 2

ALLOWED_EXTENSIONS ==
  << <<".", "p", "n", "g">>, <<".", "g", "i", "f">>, <<".", "j", "p", "e", "g">>,
     <<".", "j", "p", "g">>, <<".", "i", "c", "o">>, <<".", "b", "m", "p">>,
     <<".", "t", "i", "f", "f">>, <<".", "t", "i", "f">>,
     <<".", "w", "e", "b", "m">>, <<".", "w", "e", "b", "p">> >>

\* Array.prototype.includes
includes(array, x) == \E k \in DOMAIN array : array[k] = x

\* String.prototype.toLowerCase on the letters the file names use
toLowerCase(str) ==
  [k \in DOMAIN str |->
     CASE str[k] = "P" -> "p"
       [] str[k] = "N" -> "n"
       [] str[k] = "G" -> "g"
       [] OTHER -> str[k]]

\* positions of the dots of a name
Dots(name) == {k \in DOMAIN name : name[k] = "."}

\* name.split('.').pop(): the text after the last dot, the whole name when
\* it has no dot
splitPop(name) ==
  IF Dots(name) = {} THEN name
  ELSE LET last == CHOOSE k \in Dots(name) : \A j \in Dots(name) : j <= k
       IN  SubSeq(name, last + 1, Len(name))

\* ext of addFiles
ext(name) == <<".">> \o toLowerCase(splitPop(name))

\* name.replace(/\.[^/.]+$/, ''): a last dot followed by at least one
\* character is cut off with what follows it
stripExtension(name) ==
  IF Dots(name) = {} THEN name
  ELSE LET last == CHOOSE k \in Dots(name) : \A j \in Dots(name) : j <= k
       IN  IF last < Len(name) THEN SubSeq(name, 1, last - 1) ELSE name

\* the files a user can pick (picked one by one: no relative path)
SelectableFiles ==
  {[name |-> <<"a", ".", "p", "n", "g">>, size |-> 1000],
   [name |-> <<"a", ".", "p", "n", "g">>, size |-> 2000],
   [name |-> <<"a", ".", "P", "N", "G">>, size |-> 1000],
   [name |-> <<"b", ".", "t", "a", "r", ".", "g", "i", "f">>, size |-> 1000],
   [name |-> <<"d", ".", "p", "d", "f">>, size |-> 1000],
   [name |-> <<"p", "n", "g">>, size |-> 1000]}

\* a FileList of up to MaxBatch files
FileLists == UNION {[1..n -> SelectableFiles] : n \in 1..MaxBatch}

\* the for loop of addFiles
pushNew(files, fileList) ==
  LET RECURSIVE loop(_, _)
      loop(acc, i) ==
        IF i > Len(fileList) THEN acc
        ELSE LET file == fileList[i]
                 exists == \E k \in DOMAIN acc :
                             acc[k].name = file.name /\ acc[k].size = file.size
             IN  loop(IF includes(ALLOWED_EXTENSIONS, ext(file.name)) /\ ~exists
                      THEN Append(acc, file) ELSE acc, i + 1)
  IN  loop(files, 1)

\* files.splice(index, 1); index counts from 0
splice1(files, index) ==
  LET start == IF index < 0 THEN Max(Len(files) + index, 0) ELSE Min(index, Len(files))
  IN  SubSeq(files, 1, start) \o SubSeq(files, start + 2, Len(files))

InitClient ==
  /\ now = StartTime
  /\ rateLimits = EmptyRateLimits
  /\ disk = Undefined
  /\ impl = "bun"
  /\ req = [p \in Procs |-> IdleReq]
  /\ served = 0
  /\ uploader = NewUploader

addFiles(fileList) ==
  LET files == pushNew(uploader.files, fileList)
  IN  /\ uploader' =
           [files |-> files,
            title |-> IF Len(files) > 0 /\ uploader.title = <<>>
                      THEN stripExtension(files[1].name) ELSE uploader.title]
      /\ UNCHANGED <<now, rateLimits, disk, impl, req, served>>

\* the remove button of the item rendered at position index is clicked
removeFile(index) ==
  /\ index \in 0..(Len(uploader.files) - 1)
  /\ uploader' = [uploader EXCEPT !.files = splice1(@, index)]
  /\ UNCHANGED <<now, rateLimits, disk, impl, req, served>>

NextClient ==
  \/ \E fileList \in FileLists : addFiles(fileList)
  \/ \E index \in 0..(Len(uploader.files) - 1) : removeFile(index)

SpecClient == InitClient /\ [][NextClient]_vars

\* a name has an extension (a dot with text after it) and that extension,
\* lower-cased, is in ALLOWED_EXTENSIONS
C25_HasAllowedExtension(name) ==
  /\ Dots(name) /= {}
  /\ splitPop(name) /= <<>>
  /\ includes(ALLOWED_EXTENSIONS, ext(name))

C25_NoDuplicates(files) ==
  \A j, k \in DOMAIN files :
    (files[j].name = files[k].name /\ files[j].size = files[k].size) => j = k

\* a step leaves the list as it is, appends to it, or removes one file
\* and keeps the order of the others
C25_StepOk ==
  LET files == uploader.files
      files2 == uploader'.files
  IN  \/ files2 = files
      \/ /\ Len(files2) > Len(files)
         /\ SubSeq(files2, 1, Len(files)) = files
      \/ /\ Len(files2) = Len(files) - 1
         /\ \E i \in DOMAIN files :
              files2 = [k \in 1..(Len(files) - 1) |-> IF k < i THEN files[k] ELSE files[k + 1]]

\* C25: after any sequence of addFiles and removeFile the selected-file
\* list holds only files whose extension is in ALLOWED_EXTENSIONS and no two
\* files with the same name and size.
C25_FileList ==
  /\ \A k \in DOMAIN uploader.files : C25_HasAllowedExtension(uploader.files[k].name)
  /\ C25_NoDuplicates(uploader.files)

\* the part of C25 that does not depend on what counts as an extension
C25_ListKept ==
  /\ C25_NoDuplicates(uploader.files)
  /\ \A k \in DOMAIN uploader.files :
       includes(ALLOWED_EXTENSIONS, ext(uploader.files[k].name))

\* the steps of C25: adding only appends files not yet listed, removeFile(i)
\* removes exactly one file and keeps the order of the others
C25_Steps == [][C25_StepOk]_vars

\* ------------------------------------------------------------------------
\* Two requests handled concurrently by one process
\* ------------------------------------------------------------------------
ConcProcs == {1, 2}

\* an imgchest entry left by earlier uploads, two requests short of exhausted
UsedEntry ==
  [limit |-> IMGCHEST_RATE_LIMIT.requestsPerMinute, remaining |-> 2,
   resetAt |-> StartTime + 4 * Quantum,
   windowStart |-> StartTime + 4 * Quantum - IMGCHEST_RATE_LIMIT.windowMs,
   lastUpdated |-> StartTime + 4 * Quantum - IMGCHEST_RATE_LIMIT.windowMs]

ConcStore == [EmptyRateLimits EXCEPT !.imgchest.default = Def(UsedEntry)]

InitConc ==
  /\ now = StartTime
  /\ rateLimits = ConcStore
  /\ disk = Def(ConcStore)
  /\ impl = "bun"
  /\ req = [p \in ConcProcs |-> IdleReq]
  /\ served = 0
  /\ uploader = NewUploader

ConcRequests ==
  {q \in Requests :
     \/ q.handler = "imgchestPost" /\ q.hasToken /\ q.nImages = 1
     \/ q.handler = "sxcuFiles"}

ConcOutcomes(r) ==
  IF IsImgchestHandler(r.handler)
  THEN {Outcome("response", 200, NoHeaders, "post:idA", Undefined, FALSE),
        Outcome("response", 200, Fresh(1), "post:idA", Undefined, FALSE),
        Outcome("response", 429, NoHeaders, "json", Undefined, FALSE)}
  ELSE {Outcome("response", 200, NoHeaders, "json", Undefined, FALSE),
        Outcome("response", 429, NoHeaders, "json", Undefined, FALSE),
        Outcome("response", 429, GlobalHdr, "json", Undefined, FALSE)}

\* the fetch of an imgchest operation resolves: the headers are parsed, the
\* store is updated, and the closure is suspended in await resp.text()
FetchSettled(p, o) ==
  LET r == req[p]
      rl == updateImgchestRateLimit(rateLimits, parseRateLimitHeaders(o.headers), now)
  IN  /\ r.pc = "fetching"
      /\ IsImgchestHandler(r.handler)
      /\ o.kind = "response"
      /\ rateLimits' = rl
      /\ disk' = Def(rl)
      /\ req' = [req EXCEPT ![p] = [r EXCEPT !.pc = "reading", !.pending = Def(o)]]
      /\ UNCHANGED <<now, impl, served, uploader>>

\* resp.text() resolves: the closure returns or throws, and
\* executeWithRateLimitRetry and the handler run up to the next suspension
ReadBody(p, rnd) ==
  LET r == req[p]
      o == Val(r.pending)
      op == Operation(r, o, rateLimits)
      r1 == [r EXCEPT !.knownBucket = op.knownBucket, !.pending = Undefined]
      headers == parseRateLimitHeaders(o.headers)
      atLast == r.attempt = r.config.maxRetries
      rlImgchest == updateImgchestRateLimit(rateLimits, headers, now)
  IN  /\ r.pc = "reading"
      /\ IF op.thrown
         THEN /\ UNCHANGED <<rateLimits, disk>>
              /\ req' = [req EXCEPT ![p] =
                   IF atLast THEN OnThrow(r1, Thrown(op.message, Undefined))
                   ELSE StartWait(r1, "error", 1000, rnd)]
         ELSE IF o.status = 429
         THEN /\ rateLimits' = rlImgchest
              /\ disk' = Def(rlImgchest)
              /\ req' = [req EXCEPT ![p] =
                   IF atLast
                   THEN OnThrow(r1, Thrown(retriesExceeded(r.provider, r.config), Undefined))
                   ELSE [StartWait(r1, "429",
                                   calculateWaitTimeFromHeaders(headers, now), rnd)
                           EXCEPT !.wait.headers = headers]]
         ELSE /\ UNCHANGED <<rateLimits, disk>>
              /\ req' = [req EXCEPT ![p] =
                   OnReturn(r1, Returned(o.status, o.headers, o.body))]
      /\ UNCHANGED <<now, impl, served, uploader>>

NextConc ==
  \/ \E p \in ConcProcs, q \in ConcRequests : StartRequest(p, q)
  \/ \E p \in ConcProcs, rnd \in RandomDraws : Preflight(p, rnd)
  \/ \E p \in ConcProcs : WaitDone(p)
  \/ \E p \in ConcProcs : \E o \in ConcOutcomes(req[p]) : FetchSettled(p, o)
  \/ \E p \in ConcProcs, rnd \in RandomDraws : ReadBody(p, rnd)
  \/ \E p \in ConcProcs, rnd \in RandomDraws :
       \E o \in ConcOutcomes(req[p]) :
         ~IsImgchestHandler(req[p].handler) /\ Respond(p, o, rnd)

SpecConc == InitConc /\ [][NextConc]_vars

\* the store after k header-less updates of the imgchest entry / of the
\* sxcu global entry, starting from store rl
RECURSIVE C21_Decremented(_, _, _)
C21_Decremented(rl, provider, k) ==
  IF k = 0 THEN rl
  ELSE LET before == C21_Decremented(rl, provider, k - 1)
       IN  IF provider = "imgchest"
           THEN updateImgchestRateLimit(before, parseRateLimitHeaders(NoHeaders), StartTime)
           ELSE updateSxcuRateLimit(before, parseRateLimitHeaders(NoHeaders), FALSE, StartTime)

C21_Counts == 0..4

C21_Grid ==
  \A n \in C21_Counts, k \in C21_Counts :
    LET e == [UsedEntry EXCEPT !.remaining = n]
        rl == [EmptyRateLimits EXCEPT !.imgchest.default = Def(e), !.sxcu.global = Def(e)]
    IN  /\ Val(C21_Decremented(rl, "imgchest", k).imgchest.default).remaining = Max(0, n - k)
        /\ Val(C21_Decremented(rl, "sxcu", k).sxcu.global).remaining = Max(0, n - k)

\* what one step may do to an entry: nothing, sweep it once expired,
\* overwrite it with an entry made at this instant, or take one unit off the
\* current entry
C21_EntryStep(old, new) ==
  \/ new = old
  \/ /\ IsDef(old) /\ ~IsDef(new)
     /\ isRateLimitExpired(Val(old), now)
  \/ /\ IsDef(new)
     /\ Val(new).windowStart = now /\ Val(new).lastUpdated = now
  \/ /\ IsDef(old) /\ IsDef(new)
     /\ new = Def([Val(old) EXCEPT !.remaining = Max(0, @ - 1), !.lastUpdated = now])

\* C21: with two requests of one process interleaved at their suspension
\* points, every step changes an entry of the store by a sweep, an overwrite
\* or one decrement of the entry as it is at that step, so that no update of
\* the other request is lost; k header-less updates in a row leave
\* remaining = max(0, initial - k).
C21_Step ==
  /\ C21_Grid
  /\ C21_EntryStep(rateLimits.imgchest.default, rateLimits'.imgchest.default)
  /\ C21_EntryStep(rateLimits.sxcu.global, rateLimits'.sxcu.global)
  /\ rateLimits' /= rateLimits =>
       (disk' = Def(rateLimits') \/ disk' = disk)

C21_NoLostUpdate == [][C21_Step]_vars

\* both requests are suspended after their header-less update of the entry
\* that started with remaining 2
C21_Witness ==
  /\ \A p \in ConcProcs : req[p].pc = "reading" /\ req[p].ops = 1
  /\ \A p \in ConcProcs : Val(req[p].pending).headers = NoHeaders
  /\ IsDef(rateLimits.imgchest.default)
  /\ Val(rateLimits.imgchest.default).windowStart = UsedEntry.windowStart
  /\ Val(rateLimits.imgchest.default).remaining = 0

C21_WitnessRetry ==
  \E p \in ConcProcs :
    /\ req[p].pc = "loop" /\ req[p].attempt = 1
    /\ \E q \in ConcProcs : q /= p /\ req[q].pc = "done" /\ req[q].provider = "sxcu"

\* ------------------------------------------------------------------------
\* The wait after a thrown error
\* ------------------------------------------------------------------------
\* C31: after an error thrown by the operation at an attempt below
\* maxRetries, the wait before the next attempt is a fixed interval: the
\* duration slept is the one that every attempt number and every jitter draw
\* would give, so it owes nothing to the exponential backoff schedule.
C31_FixedErrorWait ==
  \A p \in Procs :
    LET r == req[p]
    IN  (r.pc = "waiting" /\ r.wait.cause = "error") =>
          \A attempt \in 0..(r.config.maxRetries - 1), rnd \in RandomDraws :
            r.wait.cappedWaitMs = waitWithBackoff(1000, attempt, r.config, rnd)

\* ------------------------------------------------------------------------
\* The duration of a wait
\* ------------------------------------------------------------------------
C32_WaitValues == {0, 100, 999, 1000, 1499, 4999, 5000, 5001, 60100, 120000, 120001, 500000}

C32_Configs == {DEFAULT_RETRY_CONFIG, CustomConfig}

\* the duration the claim states, from the provider-derived wait and the
\* backoff delay
C32_Stated(waitMs, backoffMs, config) == Min(Max(waitMs, backoffMs), config.maxDelayMs)

C32_Grid ==
  \A waitMs \in C32_WaitValues, attempt \in 0..8, config \in C32_Configs,
     rnd \in RandomDraws :
    LET slept == waitWithBackoff(waitMs, attempt, config, rnd)
    IN  /\ slept = C32_Stated(waitMs, calculateExponentialBackoff(attempt, config, rnd), config)
        /\ slept <= config.maxDelayMs
        /\ slept >= Min(waitMs, config.maxDelayMs)

\* C32: every wait performed by waitWithBackoff lasts exactly
\* min(max(waitMs, backoff(attempt)), maxDelayMs): the timer of a suspended
\* request is set that far ahead, never further than maxDelayMs and never
\* nearer than min(waitMs, maxDelayMs).
C32_WaitDuration ==
  /\ C32_Grid
  /\ \A p \in Procs :
       LET r == req[p]
           slept == r.wait.wakeAt - now
       IN  r.pc = "waiting"
             => /\ slept = C32_Stated(r.wait.waitMs,
                                      calculateExponentialBackoff(r.attempt, r.config, r.wait.rnd),
                                      r.config)
                /\ slept <= r.config.maxDelayMs
                /\ slept >= Min(r.wait.waitMs, r.config.maxDelayMs)

\* a wait that the provider asked to be longer than maxDelayMs and that
\* lasts maxDelayMs
C32_Witness ==
  \E p \in Procs :
    /\ req[p].pc = "waiting"
    /\ req[p].wait.cause = "429"
    /\ req[p].wait.waitMs > req[p].config.maxDelayMs
    /\ req[p].wait.wakeAt - now = req[p].config.maxDelayMs

\* a wait decided by the backoff delay, which exceeds the provider's wait
C32_WitnessBackoff ==
  \E p \in Procs :
    /\ req[p].pc = "waiting"
    /\ req[p].attempt > 0
    /\ req[p].wait.waitMs < req[p].wait.wakeAt - now
    /\ req[p].wait.wakeAt - now < req[p].config.maxDelayMs

\* ------------------------------------------------------------------------
\* The bucket scope of the sxcu policy check
\* ------------------------------------------------------------------------
C33_State ==
  \A bucketId \in AnyBucketId, cost \in Costs :
    LET g == rateLimits.sxcu.global
        b == IF IsDef(bucketId) THEN rateLimits.sxcu.buckets[Val(bucketId)] ELSE Undefined
        globalAllows == ~IsDef(g) \/ now >= Val(g).resetAt \/ Val(g).remaining >= cost
        bucketDenies == IsDef(b) /\ now < Val(b).resetAt /\ Val(b).remaining < cost
        c == checkSxcuRateLimit(rateLimits, bucketId, cost, now)
    IN  globalAllows =>
          IF bucketDenies
          THEN /\ ~c.allowed
               /\ c.reason = Def("bucket")
               /\ c.bucket = bucketId
               /\ c.resetAt = Def(Val(b).resetAt)
               /\ c.waitMs = Max(Val(b).resetAt - now + 100, 100)
          ELSE c.allowed /\ c.waitMs = 0

\* a pre-flight check of a sxcu call: denied by the supplied bucket, it ends
\* the call with a 429 that names that bucket and no upstream call; denied by
\* neither scope, it lets the operation be invoked
C33_Step ==
  \A p \in Procs :
    LET r == req[p]
        g == Live(rateLimits.sxcu.global)
        b == IF IsDef(r.bucketId) THEN Live(rateLimits.sxcu.buckets[Val(r.bucketId)])
             ELSE Undefined
        globalAllows == ~IsDef(g) \/ Val(g).remaining >= 1
        bucketDenies == IsDef(b) /\ Val(b).remaining < 1
    IN  (r.pc = "loop" /\ r.provider = "sxcu" /\ req'[p] /= r /\ globalAllows)
          => IF bucketDenies
             THEN /\ req'[p].pc = "done"
                  /\ req'[p].nCalls = r.nCalls
                  /\ IsDef(req'[p].ret)
                  /\ Val(req'[p].ret).status = 429
                  /\ Val(req'[p].ret).body = "denied"
                  /\ Val(req'[p].ret).headers.bucket = r.bucketId
                  /\ Val(req'[p].ret).headers.isGlobal = Undefined
                  /\ Val(req'[p].ret).headers.reset
                       = Def(CeilDiv(Val(b).resetAt, 1000))
             ELSE /\ req'[p].pc = "fetching"
                  /\ req'[p].nCalls = r.nCalls + 1

\* C33: checkSxcuRateLimit consults the bucket entry only when the global
\* scope allows: with the global entry absent, expired or with remaining >=
\* cost, an unexpired entry of the supplied bucket with remaining < cost
\* denies with reason 'bucket', that bucket's identifier, its resetAt and
\* waitMs = max(resetAt - now + 100, 100); when neither entry denies the
\* result is allowed with waitMs 0.
C33_BucketScope == [](C33_State) /\ [][C33_Step]_vars

\* a call with a supplied bucket id was denied by that bucket's entry while
\* the global entry had units left
C33_Witness ==
  \E p \in Procs :
    /\ req[p].pc = "done"
    /\ req[p].provider = "sxcu"
    /\ req[p].nCalls = 0
    /\ IsDef(req[p].bucketId)
    /\ IsDef(req[p].ret)
    /\ Val(req[p].ret).body = "denied"
    /\ Val(req[p].ret).headers.bucket = req[p].bucketId
    /\ IsDef(rateLimits.sxcu.global)
    /\ now < Val(rateLimits.sxcu.global).resetAt
    /\ Val(rateLimits.sxcu.global).remaining >= 1

\* ------------------------------------------------------------------------
\* The expiry sweep before checks and persists
\* ------------------------------------------------------------------------
\* store rl holds no entry whose reset time has been reached at time t
C34_Swept(rl, t) ==
  \A e \in {rl.imgchest.default, rl.sxcu.global, rl.catbox.default}
             \cup {rl.sxcu.buckets[b] : b \in BucketIds} :
    IsDef(e) => Val(e).resetAt > t

\* a pass through the pre-flight check reads a swept store
C34_CheckSwept ==
  \A p \in DOMAIN req :
    (req[p].pc = "loop" /\ req'[p] /= req[p]) => C34_Swept(rateLimits', now')

\* what is persisted is a swept store
C34_PersistSwept ==
  (disk' /= disk /\ IsDef(disk')) => C34_Swept(Val(disk'), now')

\* C34: in both implementations an expiry sweep runs before every policy
\* check and before every persist of the store: no policy check reads, and no
\* persist writes, a store that still holds an entry with resetAt <= now.
C34_SweepBefore == [][C34_CheckSwept /\ C34_PersistSwept]_vars

\* the same for the policy check alone and for the persist alone
C34_SweepBeforeCheck == [][C34_CheckSwept]_vars

C34_SweepBeforePersist == [][C34_PersistSwept]_vars

\* ------------------------------------------------------------------------
\* The Bun server with a rate-limit file that cannot always be written
\* ------------------------------------------------------------------------
\* the server started without a rate-limit file
InitFault ==
  /\ now = StartTime
  /\ rateLimits = EmptyRateLimits
  /\ disk = Undefined
  /\ impl = "bun"
  /\ req = [p \in Procs |-> IdleReq]
  /\ served = 0
  /\ uploader = NewUploader

\* the upstream call of request p ends with outcome o and writeFileSync
\* throws in the saveRateLimits() of the first update made for it: that of the
\* imgchest operation closure, or that of executeWithRateLimitRetry on a 429.
\* The store is already changed in memory, the file is not written, and the
\* error reaches the catch block of executeWithRateLimitRetry.
SaveFails(p, o, rnd) ==
  LET r == req[p]
      op == Operation(r, o, rateLimits)
      r1 == [r EXCEPT !.knownBucket = op.knownBucket]
      headers == parseRateLimitHeaders(o.headers)
      atLast == r.attempt = r.config.maxRetries
      g == sxcuIsGlobalError(headers, op.isGlobalError, op.bodyUsed, o.body)
      rl == IF IsImgchestHandler(r.handler) THEN op.rl
            ELSE IF r.provider = "sxcu"
                 THEN updateSxcuRateLimit(op.rl, headers, Truthy(g), now)
                 ELSE updateImgchestRateLimit(op.rl, headers, now)
  IN  /\ r.pc = "fetching"
      /\ o.kind = "response"
      /\ \/ IsImgchestHandler(r.handler)
         \/ ~op.thrown /\ o.status = 429
      /\ rateLimits' = rl
      /\ req' = [req EXCEPT ![p] =
           IF atLast THEN OnThrow(r1, Thrown("save", Undefined))
           ELSE StartWait(r1, "error", 1000, rnd)]
      /\ UNCHANGED <<now, disk, impl, served, uploader>>

NextFault ==
  \/ \E p \in Procs, q \in ConcRequests : StartRequest(p, q)
  \/ \E p \in Procs, rnd \in RandomDraws : Preflight(p, rnd)
  \/ \E p \in Procs : WaitDone(p)
  \/ \E p \in Procs, rnd \in RandomDraws :
       \E o \in ConcOutcomes(req[p]) : Respond(p, o, rnd)
  \/ \E p \in Procs, rnd \in RandomDraws :
       \E o \in ConcOutcomes(req[p]) : SaveFails(p, o, rnd)

SpecFault == InitFault /\ [][NextFault]_vars

\* the step in which an update changed the store and its save failed: the
\* call ends there with an error, and the handler answers 500
C35_Step ==
  \A p \in Procs :
    (/\ req[p].pc = "fetching"
     /\ req'[p] /= req[p]
     /\ rateLimits' /= rateLimits
     /\ disk' = disk)
      => /\ req'[p].pc = "done"
         /\ req'[p].nCalls = req[p].nCalls
         /\ IsDef(req'[p].ret)
         /\ Val(req'[p].ret).kind = "throw"
         /\ IsDef(req'[p].response)
         /\ Val(req'[p].response).status = 500

\* C35: a failure of the store's save step during a rate-limit update is
\* surfaced to the caller as a hard error of the logical call: it is not
\* swallowed, and it does not make the orchestrator wait and issue the
\* upstream operation again.
C35_SaveFailureIsHard == [][C35_Step]_vars

\* ------------------------------------------------------------------------
\* Creation of an entry on the first rate-limit signal
\* ------------------------------------------------------------------------
\* request r has just been told of a rate limit by the upstream response it
\* handled: a 429 (returned, waited out, or given up on), or a success that
\* carries limit and remaining headers
C36_Signalled(r) ==
  \/ /\ r.pc = "waiting"
     /\ r.wait.cause = "429"
  \/ /\ IsDef(r.ret)
     /\ \/ /\ Val(r.ret).kind = "throw"
           /\ Val(r.ret).message = retriesExceeded(r.provider, r.config)
        \/ /\ Val(r.ret).kind = "return"
           /\ Val(r.ret).body /= "denied"
           /\ \/ Val(r.ret).status = 429
              \/ /\ IsOk(Val(r.ret).status)
                 /\ IsDef(Val(r.ret).headers.limit)
                 /\ IsDef(Val(r.ret).headers.remaining)

\* store rl tracks the provider
C36_Tracked(rl, provider) ==
  IF provider = "imgchest"
  THEN IsDef(rl.imgchest.default)
  ELSE IsDef(rl.sxcu.global) \/ \E b \in BucketIds : IsDef(rl.sxcu.buckets[b])

C36_Step(providers) ==
  \A p \in Procs :
    (/\ req[p].pc = "fetching"
     /\ req'[p] /= req[p]
     /\ req[p].provider \in providers
     /\ C36_Signalled(req'[p]))
      => C36_Tracked(rateLimits', req[p].provider)

\* C36: for imgchest and for sxcu, an entry for the resource exists in the
\* store after the first observed rate-limit signal for it, be it a
\* successful response carrying limit and remaining headers or a 429 response
\* with or without headers.
C36_EntryOnFirstSignal == [][C36_Step({"imgchest", "sxcu"})]_vars

\* the same for each provider alone
C36_ImgchestEntry == [][C36_Step({"imgchest"})]_vars

C36_SxcuEntry == [][C36_Step({"sxcu"})]_vars

\* ------------------------------------------------------------------------
\* One change of the imgchest entry per upstream attempt
\* ------------------------------------------------------------------------
\* the entry after an attempt answered with the given raw headers at time t
C37_Once(entry, rawHeaders, t) ==
  LET headers == parseRateLimitHeaders(rawHeaders)
  IN  IF IsDef(headers.limit) /\ IsDef(headers.remaining)
      THEN Def([limit       |-> Val(headers.limit),
                remaining   |-> Val(headers.remaining),
                resetAt     |-> t + IMGCHEST_RATE_LIMIT.windowMs,
                windowStart |-> t,
                lastUpdated |-> t])
      ELSE IF IsDef(entry)
           THEN Def([Val(entry) EXCEPT !.remaining = Max(0, @ - 1), !.lastUpdated = t])
           ELSE Undefined

\* an attempt of an imgchest handler, from the arrival of its response to the
\* next suspension of the request: the entry is changed when the response
\* arrives, and is not changed again when its body has been read
C37_Step ==
  \A p \in DOMAIN req :
    LET r == req[p]
        entry == rateLimits.imgchest.default
    IN  /\ (r.pc = "fetching" /\ IsImgchestHandler(r.handler) /\ req'[p].pc = "reading")
             => rateLimits'.imgchest.default
                  = C37_Once(entry, Val(req'[p].pending).headers, now)
        /\ (r.pc = "reading" /\ req'[p] /= r)
             => rateLimits'.imgchest.default = entry

\* C37: for imgchest, each single upstream HTTP attempt changes the tracked
\* entry exactly once: without fresh limit and remaining headers remaining
\* is lowered by exactly 1 (floored at 0) whatever the status, 429 included,
\* and with fresh headers the entry is overwritten with them.
C37_OneChangePerAttempt == [][C37_Step]_vars

\* ------------------------------------------------------------------------
\* Two requests and the last unit of the imgchest entry
\* ------------------------------------------------------------------------
\* the entry left by earlier uploads when one unit remains
LastUnitEntry == [UsedEntry EXCEPT !.remaining = 1]

LastUnitStore == [EmptyRateLimits EXCEPT !.imgchest.default = Def(LastUnitEntry)]

InitLastUnit ==
  /\ now = StartTime
  /\ rateLimits = LastUnitStore
  /\ disk = Def(LastUnitStore)
  /\ impl = "bun"
  /\ req = [p \in ConcProcs |-> IdleReq]
  /\ served = 0
  /\ uploader = NewUploader

SpecLastUnit == InitLastUnit /\ [][NextConc]_vars

\* the imgchest calls of other requests that are with the upstream and not
\* yet recorded in the store
C38_Outstanding(p) ==
  {q \in DOMAIN req \ {p} : req[q].pc = "fetching" /\ req[q].provider = "imgchest"}

\* a request passes the pre-flight check and invokes its operation only if
\* the unexpired entry has a unit left for it beyond those that the calls in
\* flight will take
C38_Step ==
  \A p \in DOMAIN req :
    LET entry == rateLimits'.imgchest.default
    IN  (/\ req[p].pc = "loop"
         /\ req[p].provider = "imgchest"
         /\ req'[p].pc = "fetching"
         /\ IsDef(entry)
         /\ now < Val(entry).resetAt)
          => Val(entry).remaining >= Cardinality(C38_Outstanding(p)) + 1

\* C38: with an unexpired imgchest entry whose remaining is k and no fresh
\* headers arriving, concurrently running requests issue at most k upstream
\* operations before the entry expires: two concurrent requests cannot both
\* pass the pre-flight check and both invoke their operation when remaining
\* is 1.
C38_NoOverIssue == [][C38_Step]_vars

\* ------------------------------------------------------------------------
\* Bucket entries and later requests through the sxcu handlers
\* ------------------------------------------------------------------------
\* no upstream call of a sxcu handler is answered for a bucket whose recorded
\* entry is unexpired with remaining 0: such a call is not made
C39_Step ==
  \A p \in Procs :
    LET r == req[p]
        B == req'[p].knownBucket
    IN  (/\ r.pc = "fetching"
         /\ r.handler \in {"sxcuFiles", "sxcuCollections"}
         /\ req'[p] /= r
         /\ IsDef(B))
          => LET entry == rateLimits.sxcu.buckets[Val(B)]
             IN  ~(/\ IsDef(entry)
                   /\ now < Val(entry).resetAt
                   /\ Val(entry).remaining = 0)

\* C39: bucket-scoped state recorded in the store is honoured by later sxcu
\* requests: once an upstream response has recorded bucket B with remaining 0
\* and a resetAt in the future, a later request through a sxcu handler whose
\* endpoint maps to bucket B, made before that resetAt, is denied locally and
\* no upstream call is made for it.
C39_BucketHonoured == [][C39_Step]_vars

\* ------------------------------------------------------------------------
\* The answers of the imgchest handlers
\* ------------------------------------------------------------------------
\* the answer of a finished imgchest request: the final success, the failure
\* status of an upstream response other than 429, or 500, 401 or 400
C40_Answers ==
  \A p \in Procs :
    LET r == req[p]
    IN  (IsImgchestHandler(r.handler) /\ r.pc = "done")
          => /\ IsDef(r.response)
             /\ Val(r.response).status /= 429
             /\ \/ Val(r.response).status \in {200, 500, 401, 400}
                \/ /\ IsDef(r.ret)
                   /\ Val(r.ret).kind = "return"
                   /\ ~IsOk(Val(r.ret).status)
                   /\ Val(r.response).status = Val(r.ret).status

\* a local denial of an imgchest handler's call is waited out, or ends the
\* request with 500 at the last attempt; a request that waits has no answer
C40_Step ==
  \A p \in Procs :
    LET r == req[p]
        c == checkImgchestRateLimit(rateLimits', 1, now)
    IN  /\ (/\ IsImgchestHandler(r.handler)
            /\ r.pc = "loop"
            /\ req'[p] /= r
            /\ ~c.allowed)
             => IF r.attempt < r.config.maxRetries
                THEN /\ req'[p].pc = "waiting"
                     /\ req'[p].wait.cause = "preflight"
                     /\ ~IsDef(req'[p].response)
                ELSE /\ req'[p].pc = "done"
                     /\ Val(req'[p].response).status = 500
        /\ (IsImgchestHandler(r.handler) /\ req'[p].pc = "waiting")
             => ~IsDef(req'[p].response)

\* C40: the imgchest post and add handlers never answer their caller with
\* status 429: local denials and upstream 429s are absorbed by waiting and
\* retrying inside the orchestrator, and the answer is the final success
\* (200), an upstream failure status other than 429, or 500, 401 or 400.
C40_Never429 == [](C40_Answers) /\ [][C40_Step]_vars

\* an imgchest upload that was throttled upstream at every attempt, waited
\* each time, and is answered 500
C40_Witness ==
  \E p \in Procs :
    /\ req[p].handler = "imgchestPost"
    /\ req[p].pc = "done"
    /\ req[p].attempt = req[p].config.maxRetries
    /\ req[p].nWaits = req[p].config.maxRetries
    /\ IsDef(req[p].ret)
    /\ Val(req[p].ret).message = retriesExceeded("imgchest", req[p].config)
    /\ Val(req[p].response).status = 500

\* an imgchest upload answered 200 after a local denial was waited out
C40_WitnessDenied ==
  \E p \in Procs :
    /\ IsImgchestHandler(req[p].handler)
    /\ req[p].pc = "done"
    /\ req[p].attempt > 0
    /\ req[p].nWaits > req[p].nCalls - 1
    /\ Val(req[p].response).status = 200

====
